---- MODULE Spec2Model ----
(***************************************************************************)
(* Model of the storage layer of Turtlebackend                             *)
(* (crates/database/src/basic_db.rs: InnerDatabase, an                     *)
(* Arc<Mutex<libmdbx::Database>>) and of the DAO handlers built on it      *)
(* (crates/net/src/community.rs).                                          *)
(*                                                                         *)
(* Byte strings (keys, addresses) are sequences of byte values.  A stored  *)
(* value is a string: plain text is Text(bytes), the JSON text of a struct *)
(* is the record serde_json writes for it, tagged with the struct's name.  *)
(***************************************************************************)
EXTENDS Integers, Sequences, FiniteSets, TLC

\* ------------------------------------------------------------------ bounds

\* Longest item slice a direct caller hands to batch_write.
MaxBatch == 2

\* Largest value a community's child counter is driven to.
MaxCount == 2

\* Most parts a multipart body of profile_write carries.
MaxParts == 2

\* options.max_tables = Some(100)
max_tables == 100

\* ------------------------------------------------------------ the universe

\* The threads of the process, each holding its own clone of the handle.
Procs == {1, 2, 3}

\* The threads that run when two are enough.
Threads == {1, 2}

\* Table names used by direct callers (tests) of the storage layer.
RawTables == {"t1", "t2"}

\* "a", "b"
RawKeys == {<<97>>, <<98>>}

Text(b) == [t |-> "text", b |-> b]

\* "x", "y"
RawVals == {Text(<<120>>), Text(<<121>>)}

\* Option<T>
None == [some |-> FALSE]
Some(v) == [some |-> TRUE, v |-> v]

\* Result<T, libmdbx::Error>
Ok(v) == [ok |-> TRUE, val |-> v]
Err(e) == [ok |-> FALSE, err |-> e]

\* ()
Unit == [unit |-> TRUE]

\* f with x mapped to y (HashMap::insert, a B-tree upsert).
Upd(f, x, y) == [z \in (DOMAIN f) \cup {x} |-> IF z = x THEN y ELSE f[z]]

\* A table, or a HashMap, with no entry.
EmptyMap == <<>>

\* Byte-wise lexicographic order of two keys: libmdbx's default comparator.
RECURSIVE KeyLess(_, _)
KeyLess(a, b) ==
  IF b = <<>> THEN FALSE
  ELSE IF a = <<>> THEN TRUE
  ELSE IF Head(a) # Head(b) THEN Head(a) < Head(b)
  ELSE KeyLess(Tail(a), Tail(b))

\* The item slices of length at most MaxBatch over the raw keys and values.
RawItems == UNION {[1..n -> RawKeys \X RawVals] : n \in 0..MaxBatch}

\* The calls a direct caller can make.
RawOps ==
       {[kind |-> "write", key |-> k, value |-> v, table |-> t] :
          k \in RawKeys, v \in RawVals, t \in RawTables}
  \cup {[kind |-> "read", key |-> k, table |-> t] : k \in RawKeys, t \in RawTables}
  \cup {[kind |-> "read_all", table |-> t] : t \in RawTables}
  \cup {[kind |-> "batch_write", items |-> i, table |-> t] :
          i \in RawItems, t \in RawTables}

NoOp == [kind |-> "none"]
NoTxn == [kind |-> "none"]
NoRes == [ok |-> FALSE, err |-> "pending"]

\* ------------------------------------------------------------------- state

VARIABLES
  env,     \* the committed environment: table name -> (key -> value)
  lock,    \* the Mutex around the Database: 0, or the thread holding the guard
  txn,     \* per thread: the transaction it has open (its working copy)
  pc,      \* per thread: where it stands in the operation
  op,      \* per thread: the operation it runs and its arguments
  res,     \* per thread: the Result the operation returns
  scan,    \* per thread: read_all's cursor (last key, pending) and its HashMap
  fault,   \* per thread: the engine reported a failure during the operation
  h,       \* per thread: the HTTP request it serves, if any (raced: history)
  acked,   \* history: <<table, key>> -> value of the last write that returned Ok
  env0,    \* history: the environment when the running operation took the lock
  slots,   \* the named tables the process holds an open handle for
  log      \* history: the appends answered OK since the community was stored

vars == <<env, lock, txn, pc, op, res, scan, fault, h, acked, env0, slots, log>>

NoScan == [map |-> EmptyMap, seen |-> {}]
NoLog == [base |-> None, items |-> <<>>, clean |-> TRUE]
NoReq == [name |-> "none"]

Init ==
  /\ env = EmptyMap
  /\ lock = 0
  /\ txn = [p \in Procs |-> NoTxn]
  /\ pc = [p \in Procs |-> "idle"]
  /\ op = [p \in Procs |-> NoOp]
  /\ res = [p \in Procs |-> NoRes]
  /\ scan = [p \in Procs |-> NoScan]
  /\ fault = [p \in Procs |-> FALSE]
  /\ h = [p \in Procs |-> NoReq]
  /\ acked = EmptyMap
  /\ env0 = EmptyMap
  /\ slots = {}
  /\ log = NoLog


\* ---------------------------------------------------- the engine's calls

IsWrite(o) == o.kind \in {"write", "batch_write"}

\* A transaction that begins on an environment of the handle's own, which no
\* other handle has written.
begin_txn_unshared(e, o) ==
  [kind |-> IF IsWrite(o) THEN "rw" ELSE "ro", work |-> EmptyMap, i |-> 1]

\* Database::begin_rw_txn / begin_ro_txn: a transaction works on its own copy
\* of the committed environment.
begin_txn(e, o) == [kind |-> IF IsWrite(o) THEN "rw" ELSE "ro", work |-> e, i |-> 1]

\* A create_table that hands back the table emptied.
create_table_truncates(work, t) == Upd(work, t, EmptyMap)

\* Transaction::create_table(Some(name), TableFlags::default()): opens the
\* table, creating it empty in the transaction when it is absent.
create_table(work, t) == IF t \in DOMAIN work THEN work ELSE Upd(work, t, EmptyMap)

\* An engine with no limit on its table handles.
HasSlot_unbounded(s, t) == TRUE

\* The engine has a handle slot for table t: the process holds a handle for it
\* already, or holds fewer than max_tables handles.
HasSlot(s, t) == t \in s \/ Cardinality(s) < max_tables

\* put with WriteFlags::NO_OVERWRITE: an existing key keeps its value.
put_no_overwrite(work, t, k, v) ==
  IF k \in DOMAIN work[t] THEN work ELSE [work EXCEPT ![t] = Upd(@, k, v)]

\* put into one key space shared by every table.
put_shared(work, t, k, v) == [x \in DOMAIN work |-> Upd(work[x], k, v)]

\* Transaction::put(&table, key, value, WriteFlags::default()): upsert.
put(work, t, k, v) == [work EXCEPT ![t] = Upd(@, k, v)]

\* get that reports every key present under another table as present.
get_any_table(work, t, k) ==
  IF \E x \in DOMAIN work : k \in DOMAIN work[x]
  THEN Some(work[CHOOSE x \in DOMAIN work : k \in DOMAIN work[x]][k])
  ELSE None

\* Transaction::get(&table, key): Option<Vec<u8>>.
get(work, t, k) == IF k \in DOMAIN work[t] THEN Some(work[t][k]) ELSE None

\* A commit that keeps, for a key that has a committed value, that value.
commit_first_wins(e, work) ==
  [t \in DOMAIN work |->
     [k \in DOMAIN work[t] |->
        IF t \in DOMAIN e /\ k \in DOMAIN e[t] THEN e[t][k] ELSE work[t][k]]]

\* Transaction::commit: the working copy becomes the committed environment.
commit(e, work) == work

\* An abort that leaves the writes made so far in the environment.
abort_keeps_writes(e, work) == work

\* An abort that rolls the puts back but leaves a created table behind.
abort_keeps_table(e, work) ==
  [t \in DOMAIN work |-> IF t \in DOMAIN e THEN e[t] ELSE EmptyMap]

\* Dropping an uncommitted transaction aborts it: the environment stays.
abort(e, work) == e

\* The cursor's next item: the smallest key it has not yet passed.
MinKey(S) == CHOOSE k \in S : \A j \in S \ {k} : KeyLess(k, j)

\* What the writes of a call that returned Ok leave as the last value of
\* each <<table, key>>: a later pair of the slice replaces an earlier one.
RECURSIVE AckItems(_, _, _)
AckItems(a, items, t) ==
  IF items = <<>> THEN a
  ELSE AckItems(Upd(a, <<t, Head(items)[1]>>, Head(items)[2]), Tail(items), t)

Ack(a, o) ==
  IF o.kind = "write" THEN Upd(a, <<o.table, o.key>>, o.value)
  ELSE AckItems(a, o.items, o.table)

\* ------------------------------------------------------- the operations

\* A lock that lets a second thread in.
MutexFree_open == TRUE

\* Mutex::lock blocks until no thread holds the guard.
MutexFree == lock = 0

\* A direct caller (a test, a thread of one) calls an operation of the trait.
Call(p) ==
  /\ pc[p] = "idle"
  /\ pc' = [pc EXCEPT ![p] = "lock"]
  /\ UNCHANGED <<env, lock, txn, op, res, scan, fault, h, acked, env0, slots, log>>

\* self.db.lock(): the thread takes the guard.  The arguments of a direct
\* call are not looked at before this point; they are drawn here.  A handler
\* has set the call's arguments already.
LockOn(p, ops) ==
  /\ pc[p] = "lock"
  /\ MutexFree
  /\ lock' = p
  /\ \E o \in (IF h[p] = NoReq THEN ops ELSE {op[p]}) : op' = [op EXCEPT ![p] = o]
  /\ pc' = [pc EXCEPT ![p] = "begin"]
  /\ res' = [res EXCEPT ![p] = NoRes]
  /\ scan' = [scan EXCEPT ![p] = NoScan]
  /\ fault' = [fault EXCEPT ![p] = FALSE]
  /\ env0' = env
  /\ UNCHANGED <<env, txn, h, acked, slots, log>>

\* The lock step of a caller that can make any of the raw calls.
Lock(p) == LockOn(p, RawOps)

\* The `?` after an engine call that failed: the function returns the error;
\* the transaction, if one is open, is dropped (aborted).
Fail(p, e) ==
  /\ env' = IF txn[p] = NoTxn THEN env ELSE abort(env, txn[p].work)
  /\ txn' = [txn EXCEPT ![p] = NoTxn]
  /\ res' = [res EXCEPT ![p] = Err(e)]
  /\ fault' = [fault EXCEPT ![p] = TRUE]
  /\ pc' = [pc EXCEPT ![p] = "ret"]
  /\ UNCHANGED <<lock, op, scan, h, acked, env0, slots, log>>

\* A read-only operation returns r: its transaction is dropped.
Return(p, r) ==
  /\ txn' = [txn EXCEPT ![p] = NoTxn]
  /\ res' = [res EXCEPT ![p] = r]
  /\ pc' = [pc EXCEPT ![p] = "ret"]

\* db.begin_rw_txn()? / db.begin_ro_txn()?
Begin(p) ==
  /\ pc[p] = "begin"
  /\ txn' = [txn EXCEPT ![p] = begin_txn(env, op[p])]
  /\ pc' = [pc EXCEPT ![p] = "table"]
  /\ UNCHANGED <<env, lock, op, res, scan, fault, h, acked, env0, slots, log>>

BeginFail(p) ==
  /\ pc[p] = "begin"
  /\ Fail(p, "begin")

\* transaction.create_table(Some(table), TableFlags::default())?
CreateTable(p) ==
  /\ pc[p] = "table"
  /\ IsWrite(op[p])
  /\ HasSlot(slots, op[p].table)
  /\ txn' = [txn EXCEPT ![p].work = create_table(@, op[p].table)]
  /\ pc' = [pc EXCEPT ![p] =
       IF op[p].kind = "batch_write" /\ op[p].items = <<>> THEN "commit" ELSE "put"]
  /\ UNCHANGED <<env, lock, op, res, scan, fault, h, acked, env0, slots, log>>

CreateTableFail(p) ==
  /\ pc[p] = "table"
  /\ IsWrite(op[p])
  /\ Fail(p, IF HasSlot(slots, op[p].table) THEN "create_table" ELSE "DbsFull")

\* transaction.put(&table, key, value, WriteFlags::default())? of write.
Put(p) ==
  /\ pc[p] = "put"
  /\ op[p].kind = "write"
  /\ txn' = [txn EXCEPT ![p].work = put(@, op[p].table, op[p].key, op[p].value)]
  /\ pc' = [pc EXCEPT ![p] = "commit"]
  /\ UNCHANGED <<env, lock, op, res, scan, fault, h, acked, env0, slots, log>>

\* A loop that goes through the slice from its last pair to its first.
BatchPut_reversed(p) ==
  /\ pc[p] = "put"
  /\ op[p].kind = "batch_write"
  /\ LET i == txn[p].i
         item == op[p].items[Len(op[p].items) - i + 1]
     IN /\ txn' = [txn EXCEPT ![p].work = put(@, op[p].table, item[1], item[2]),
                              ![p].i = i + 1]
        /\ pc' = [pc EXCEPT ![p] = IF i = Len(op[p].items) THEN "commit" ELSE "put"]
  /\ UNCHANGED <<env, lock, op, res, scan, fault, h, acked, env0, slots, log>>

\* One turn of `for (key, value) in items { transaction.put(..)?; }`.
BatchPut(p) ==
  /\ pc[p] = "put"
  /\ op[p].kind = "batch_write"
  /\ LET i == txn[p].i
         item == op[p].items[i]
     IN /\ txn' = [txn EXCEPT ![p].work = put(@, op[p].table, item[1], item[2]),
                              ![p].i = i + 1]
        /\ pc' = [pc EXCEPT ![p] = IF i = Len(op[p].items) THEN "commit" ELSE "put"]
  /\ UNCHANGED <<env, lock, op, res, scan, fault, h, acked, env0, slots, log>>

PutFail(p) ==
  /\ pc[p] = "put"
  /\ Fail(p, "put")

\* History: thread p's request is the one whose write committed last.
Stamp(p) ==
  [q \in Procs |-> IF h[q] = NoReq THEN h[q] ELSE [h[q] EXCEPT !.last = (q = p)]]

\* transaction.commit()?; Ok(()).  The handle of the table the transaction
\* opened stays with the process.
Commits(p) ==
  /\ pc[p] = "commit"
  /\ env' = commit(env, txn[p].work)
  /\ slots' = slots \cup {op[p].table}
  /\ h' = Stamp(p)
  /\ txn' = [txn EXCEPT ![p] = NoTxn]
  /\ res' = [res EXCEPT ![p] = Ok(Unit)]
  /\ acked' = Ack(acked, op[p])
  /\ pc' = [pc EXCEPT ![p] = "ret"]
  /\ UNCHANGED <<lock, op, scan, fault, env0>>

Commit(p) == Commits(p) /\ UNCHANGED log

\* History: the commit of a batch_write, with the slice it was given and the
\* keys its table held before kept in the log.
CommitBatch(p) ==
  /\ Commits(p)
  /\ log' = [base |-> Some(IF op[p].table \in DOMAIN env
                           THEN DOMAIN env[op[p].table] ELSE {}),
             items |-> op[p].items, clean |-> TRUE]

CommitFail(p) ==
  /\ pc[p] = "commit"
  /\ Fail(p, "commit")

\* `open_table(..)?` in place of `if let Ok`: a missing table is an error.
Absent_is_error(o) == Err("NotFound")

\* What read and read_all return when `if let Ok(table) = open_table(..)` does
\* not match: Ok(None), and Ok of the empty map.
Absent(o) == IF o.kind = "read" THEN Ok(None) ELSE Ok(EmptyMap)

\* if let Ok(table) = transaction.open_table(Some(table)): the table exists.
OpenTable(p) ==
  /\ pc[p] = "table"
  /\ ~IsWrite(op[p])
  /\ op[p].table \in DOMAIN txn[p].work
  /\ pc' = [pc EXCEPT ![p] = IF op[p].kind = "read" THEN "get" ELSE "cursor"]
  /\ UNCHANGED <<env, lock, txn, op, res, scan, fault, h, acked, env0, slots, log>>

\* open_table returned Err(NotFound): the `if let` is skipped.
OpenTableAbsent(p) ==
  /\ pc[p] = "table"
  /\ ~IsWrite(op[p])
  /\ op[p].table \notin DOMAIN txn[p].work
  /\ Return(p, Absent(op[p]))
  /\ UNCHANGED <<env, lock, op, scan, fault, h, acked, env0, slots, log>>

\* open_table returned another error: the `if let` is skipped all the same.
OpenTableFail(p) ==
  /\ pc[p] = "table"
  /\ ~IsWrite(op[p])
  /\ Return(p, Absent(op[p]))
  /\ fault' = [fault EXCEPT ![p] = TRUE]
  /\ UNCHANGED <<env, lock, op, scan, h, acked, env0, slots, log>>

\* let result = transaction.get(&table, key.as_bytes())?; return Ok(result)
Get(p) ==
  /\ pc[p] = "get"
  /\ Return(p, Ok(get(txn[p].work, op[p].table, op[p].key)))
  /\ UNCHANGED <<env, lock, op, scan, fault, h, acked, env0, slots, log>>

GetFail(p) ==
  /\ pc[p] = "get"
  /\ Fail(p, "get")

\* let cursor = transaction.cursor(&table)?
Cursor(p) ==
  /\ pc[p] = "cursor"
  /\ pc' = [pc EXCEPT ![p] = "scan"]
  /\ UNCHANGED <<env, lock, txn, op, res, scan, fault, h, acked, env0, slots, log>>

CursorFail(p) ==
  /\ pc[p] = "cursor"
  /\ Fail(p, "cursor")

\* A cursor positioned on the first entry and then advanced: it skips it.
Remaining_skips_first(p) ==
  LET all == DOMAIN txn[p].work[op[p].table]
  IN IF all = {} THEN {} ELSE all \ (scan[p].seen \cup {MinKey(all)})

\* The keys the cursor has still to yield.
Remaining(p) == (DOMAIN txn[p].work[op[p].table]) \ scan[p].seen

\* One turn of `for item in cursor { let (key, value) = item?; map.insert(..) }`.
ScanItem(p) ==
  /\ pc[p] = "scan"
  /\ Remaining(p) # {}
  /\ LET k == MinKey(Remaining(p))
     IN scan' = [scan EXCEPT ![p] =
          [map |-> Upd(@.map, k, txn[p].work[op[p].table][k]),
           seen |-> @.seen \cup {k}]]
  /\ UNCHANGED <<env, lock, txn, pc, op, res, fault, h, acked, env0, slots, log>>

ScanFail(p) ==
  /\ pc[p] = "scan"
  /\ Fail(p, "cursor_next")

\* The cursor is exhausted: Ok(map).
ScanEnd(p) ==
  /\ pc[p] = "scan"
  /\ Remaining(p) = {}
  /\ Return(p, Ok(scan[p].map))
  /\ UNCHANGED <<env, lock, op, scan, fault, h, acked, env0, slots, log>>

\* A return that keeps the guard alive.
Unlock_keeps_guard(p) ==
  /\ pc[p] = "ret"
  /\ pc' = [pc EXCEPT ![p] = IF h[p] = NoReq THEN "idle" ELSE "back"]
  /\ op' = [op EXCEPT ![p] = NoOp]
  /\ res' = [res EXCEPT ![p] = IF h[p] = NoReq THEN NoRes ELSE @]
  /\ scan' = [scan EXCEPT ![p] = NoScan]
  /\ fault' = [fault EXCEPT ![p] = FALSE]
  /\ env0' = env
  /\ UNCHANGED <<env, lock, txn, h, acked, slots, log>>

\* A return that drops the guard only on the Ok path.
Unlock_on_success(p) ==
  /\ pc[p] = "ret"
  /\ lock' = IF lock = p /\ ~fault[p] THEN 0 ELSE lock
  /\ pc' = [pc EXCEPT ![p] = IF h[p] = NoReq THEN "idle" ELSE "back"]
  /\ op' = [op EXCEPT ![p] = NoOp]
  /\ res' = [res EXCEPT ![p] = IF h[p] = NoReq THEN NoRes ELSE @]
  /\ scan' = [scan EXCEPT ![p] = NoScan]
  /\ fault' = [fault EXCEPT ![p] = FALSE]
  /\ env0' = env
  /\ UNCHANGED <<env, txn, h, acked, slots, log>>

\* The function returns: the MutexGuard is dropped, after the transaction.
\* A direct caller is done; a handler goes on with the result.
Unlock(p) ==
  /\ pc[p] = "ret"
  /\ lock' = IF lock = p THEN 0 ELSE lock
  /\ pc' = [pc EXCEPT ![p] = IF h[p] = NoReq THEN "idle" ELSE "back"]
  /\ op' = [op EXCEPT ![p] = NoOp]
  /\ res' = [res EXCEPT ![p] = IF h[p] = NoReq THEN NoRes ELSE @]
  /\ scan' = [scan EXCEPT ![p] = NoScan]
  /\ fault' = [fault EXCEPT ![p] = FALSE]
  /\ env0' = env
  /\ UNCHANGED <<env, txn, h, acked, slots, log>>

Next ==
  \E p \in Threads :
    \/ Call(p) \/ Lock(p) \/ Begin(p) \/ BeginFail(p)
    \/ CreateTable(p) \/ CreateTableFail(p)
    \/ Put(p) \/ BatchPut(p) \/ PutFail(p)
    \/ Commit(p) \/ CommitFail(p)
    \/ OpenTable(p) \/ OpenTableAbsent(p) \/ OpenTableFail(p)
    \/ Get(p) \/ GetFail(p)
    \/ Cursor(p) \/ CursorFail(p)
    \/ ScanItem(p) \/ ScanFail(p) \/ ScanEnd(p)
    \/ Unlock(p)

Spec == Init /\ [][Next]_vars

\* The steps of thread p between taking the guard and dropping it: straight
\* code with two bounded loops, which a running thread keeps executing.
Runs(p) ==
  \/ Begin(p) \/ BeginFail(p)
  \/ CreateTable(p) \/ CreateTableFail(p)
  \/ Put(p) \/ BatchPut(p) \/ PutFail(p)
  \/ Commit(p) \/ CommitFail(p)
  \/ OpenTable(p) \/ OpenTableAbsent(p) \/ OpenTableFail(p)
  \/ Get(p) \/ GetFail(p)
  \/ Cursor(p) \/ CursorFail(p)
  \/ ScanItem(p) \/ ScanFail(p) \/ ScanEnd(p)
  \/ Unlock(p)

\* The calls of a caller that works on one table with one value: write, read,
\* read_all, and batch_write of every slice of at most MaxBatch pairs.
LiveOps ==
  {o \in RawOps :
     /\ o.table = "t1"
     /\ o.kind = "write" => o.value = Text(<<120>>)
     /\ o.kind = "batch_write" =>
          \A i \in DOMAIN o.items : o.items[i][2] = Text(<<120>>)}

NextLive ==
  \E p \in Threads :
    \/ Call(p) \/ LockOn(p, LiveOps) \/ Runs(p)

\* Those calls with threads that keep running and a lock that is handed out
\* fairly: a thread that finds the lock free again and again gets it.
SpecLive ==
  /\ Init /\ [][NextLive]_vars
  /\ \A p \in Threads : WF_vars(Runs(p)) /\ SF_vars(LockOn(p, LiveOps))


\* ------------------------------------------------------------ the handlers

\* "P": the address of the one community.
Pdas == {<<80>>}

\* "P", "Q": the addresses save_pda is asked to store.
Addrs == {<<80>>, <<81>>}

\* SystemTime::now(), in seconds since the epoch.
Clock == {1}

\* format!("{}", n) for a u64.
RECURSIVE Dec(_)
Dec(n) == IF n < 10 THEN <<48 + n>> ELSE Dec(n \div 10) \o <<48 + (n % 10)>>

\* The key formatted from the counter as it was before the increment.
ChildKey_before_increment(pda, n) == pda \o <<95>> \o Dec(n - 1)

\* format!("{}_{}", pda, count)
ChildKey(pda, n) == pda \o <<95>> \o Dec(n)

\* serde_json::to_string of a struct: its JSON text.
to_string(ty, v) == [json |-> ty, v |-> v]

\* serde_json::from_str::<T>: the struct, or an error for any other text.
from_str(ty, s) ==
  IF "json" \in DOMAIN s /\ s.json = ty THEN Ok(s.v) ELSE Err("Invalid JSON")

\* The Community a client submits to save_community.
Communities ==
  {[admin |-> <<65>>, time_limit |-> 0, base_fee |-> 0, ai_moderation |-> FALSE,
    deposit_share |-> 0, last_activity_timestamp |-> 0, total_deposit |-> 0,
    active_proposal_count |-> 0, content_count |-> 0, depositor_count |-> 0]}

\* The handlers that append a child, the table each writes and the counter
\* each increments.
Appends == {"save_content", "save_depositor", "save_proposal"}

ChildTable(name) ==
  CASE name = "save_content" -> "content"
    [] name = "save_depositor" -> "depositor"
    [] OTHER -> "proposal"

Count(c, name) ==
  CASE name = "save_content" -> c.content_count
    [] name = "save_depositor" -> c.depositor_count
    [] OTHER -> c.active_proposal_count

\* An increment that always lands on content_count.
Bump_always_content(c, name, now) ==
  [c EXCEPT !.content_count = @ + 1, !.last_activity_timestamp = now]

\* community.content_count += 1 (depositor_count in save_depositor,
\* active_proposal_count in save_proposal) and
\* community.last_activity_timestamp = now.
Bump(c, name, now) ==
  CASE name = "save_content" ->
         [c EXCEPT !.content_count = @ + 1, !.last_activity_timestamp = now]
    [] name = "save_depositor" ->
         [c EXCEPT !.depositor_count = @ + 1, !.last_activity_timestamp = now]
    [] OTHER ->
         [c EXCEPT !.active_proposal_count = @ + 1, !.last_activity_timestamp = now]

\* The Content, Depositor or Proposal thread p's client submits, and its JSON
\* type.
ChildType(name) ==
  CASE name = "save_content" -> "Content"
    [] name = "save_depositor" -> "Depositor"
    [] OTHER -> "Proposal"

ChildBody(name, p) ==
  CASE name = "save_content" ->
         [author |-> <<64 + p>>, content_hash |-> <<>>, content_uri |-> <<>>,
          timestamp |-> 0, votes |-> 0]
    [] name = "save_depositor" ->
         [pubkey |-> <<64 + p>>, amount |-> 0, locked_until |-> 0, voting_power |-> 0]
    [] OTHER ->
         [id |-> p, proposal_type |-> 0, new_value |-> 0, voting_end_time |-> 0,
          yes_votes |-> 0, no_votes |-> 0, is_executed |-> FALSE]

\* "U": the address profiles are stored under.
Addresses == {<<85>>}

\* The text parts profile_write copies into the profile.
TextFields ==
  {"user_id", "user_name", "user_address", "github_account", "x_account",
   "tg_account", "user_bio"}

\* The UserProfile profile_write starts from: every String empty, no avatar.
EmptyProfile ==
  [user_id |-> <<>>, user_name |-> <<>>, user_address |-> <<>>,
   github_account |-> <<>>, x_account |-> <<>>, tg_account |-> <<>>,
   user_bio |-> <<>>, user_avatar |-> None, avatar_content_type |-> None]

\* The profile get_profile_by_address answers with when none is stored.
default_profile(address) == [EmptyProfile EXCEPT !.user_address = address]

\* String::from_utf8 / field.text() accept the bytes: of the bytes used here
\* only 255 is never part of a UTF-8 text.
Utf8(b) == \A i \in DOMAIN b : b[i] < 128

\* One part of a multipart body: its name, its bytes and its Content-Type
\* header, if it has one.
Part(n, d, ct) == [name |-> n, data |-> d, content_type |-> ct]

\* The 'image/jpeg' a file part is sent with.
Jpeg == Some(<<106>>)

\* A loop that keeps the avatar's bytes and forgets its Content-Type.
field_forgets_content_type(u, part) ==
  IF part.name \in TextFields THEN [u EXCEPT ![part.name] = part.data]
  ELSE IF part.name = "user_avatar"
  THEN IF part.data # <<>> THEN [u EXCEPT !.user_avatar = Some(part.data)] ELSE u
  ELSE u

\* One turn of profile_write's `while let Some(field)`: the match on the
\* part's name.
field(u, part) ==
  IF part.name \in TextFields THEN [u EXCEPT ![part.name] = part.data]
  ELSE IF part.name = "user_avatar"
  THEN IF part.data # <<>>
       THEN [u EXCEPT !.user_avatar = Some(part.data),
                      !.avatar_content_type = part.content_type]
       ELSE u
  ELSE u

\* The profile the loop has built after the last part.
RECURSIVE user_profile(_)
user_profile(parts) ==
  IF parts = <<>> THEN EmptyProfile
  ELSE field(user_profile(SubSeq(parts, 1, Len(parts) - 1)), parts[Len(parts)])

\* field.text() succeeds on every text part the loop reads.
Readable(parts) ==
  \A i \in DOMAIN parts : parts[i].name \in TextFields => Utf8(parts[i].data)

\* The parts a client of thread p sends.
Parts(p) ==
  {Part("user_address", a, None) : a \in Addresses \cup {<<>>}}
  \cup {Part("user_id", <<64 + p>>, None), Part("user_name", <<255>>, None),
        Part("comment", <<99>>, None),
        Part("user_avatar", <<255>>, Jpeg), Part("user_avatar", <<255>>, None),
        Part("user_avatar", <<>>, Jpeg)}

\* The multipart bodies of at most MaxParts parts.
Bodies(p) == UNION {[1..n -> Parts(p)] : n \in 0..MaxParts}

\* The requests thread p can be handed.
PdaRequests(p) ==
       {[name |-> "save_pda", pda |-> a] : a \in Addrs \cup {<<>>}}
  \cup {[name |-> "get_all_pdas", pda |-> <<>>]}

DaoRequests(p, appends) ==
       {[name |-> "save_community", pda |-> a, body |-> c] :
          a \in Pdas \cup {<<>>}, c \in Communities}
  \cup {[name |-> n, pda |-> a, body |-> ChildBody(n, p)] :
          n \in appends, a \in Pdas \cup {<<>>}}

\* A check that lets an empty pda through.
Valid_empty_pda(r) ==
  CASE r.name = "get_all_pdas" -> TRUE
    [] r.name = "write" -> TRUE
    [] r.name = "profile_write" ->
         Readable(r.parts) /\ user_profile(r.parts).user_address # <<>>
    [] r.name = "get_profile_by_address" -> r.address # <<>>
    [] OTHER -> TRUE

\* A check that lets a lookup of the empty address through.
Valid_empty_lookup(r) ==
  CASE r.name = "get_all_pdas" -> TRUE
    [] r.name = "write" -> TRUE
    [] r.name = "profile_write" ->
         Readable(r.parts) /\ user_profile(r.parts).user_address # <<>>
    [] r.name = "get_profile_by_address" -> TRUE
    [] OTHER -> r.pda # <<>>

\* A check that lets a profile without an address through.
Valid_without_address(r) ==
  CASE r.name = "get_all_pdas" -> TRUE
    [] r.name = "write" -> TRUE
    [] r.name = "profile_write" -> Readable(r.parts)
    [] r.name = "get_profile_by_address" -> r.address # <<>>
    [] OTHER -> r.pda # <<>>

\* The handler's check before any storage call: `pda.is_empty()`,
\* `daopda.address.is_empty()`; get_all_pdas has none.
Valid(r) ==
  CASE r.name = "get_all_pdas" -> TRUE
    [] r.name = "write" -> TRUE
    [] r.name = "profile_write" ->
         Readable(r.parts) /\ user_profile(r.parts).user_address # <<>>
    [] r.name = "get_profile_by_address" -> r.address # <<>>
    [] OTHER -> r.pda # <<>>

\* The error a handler returns for a request that fails its check.
Reject(r) ==
  CASE r.name = "profile_write" ->
         IF Readable(r.parts)
         THEN [status |-> "MultipartError", msg |-> "User ID is required"]
         ELSE [status |-> "MultipartError", msg |-> "field"]
    [] r.name = "get_profile_by_address" ->
         [status |-> "MultipartError", msg |-> "Address is required"]
    [] OTHER -> [status |-> "ValidationError"]

\* A mapping that sends ValidationError to INTERNAL_SERVER_ERROR.
into_response_validation_500(resp) ==
  IF resp.status = "MultipartError" THEN 400
  ELSE IF resp.status \in {"DatabaseError", "SerializationError", "ValidationError"}
  THEN 500
  ELSE 200

\* impl IntoResponse: the HTTP status of a response.
into_response(resp) ==
  IF resp.status \in {"MultipartError", "ValidationError"} THEN 400
  ELSE IF resp.status \in {"DatabaseError", "SerializationError"} THEN 500
  ELSE 200

\* The handlers that list the children of a community, the table each reads
\* and the struct it parses.
Lookups == {"get_contents_by_pda", "get_depositors_by_pda", "get_proposals_by_pda"}

LookupTable(name) ==
  CASE name = "get_contents_by_pda" -> "content"
    [] name = "get_depositors_by_pda" -> "depositor"
    [] OTHER -> "proposal"

LookupType(name) ==
  CASE name = "get_contents_by_pda" -> "Content"
    [] name = "get_depositors_by_pda" -> "Depositor"
    [] OTHER -> "Proposal"

\* format!("{}_", query.pda)
Prefix(pda) == pda \o <<95>>

\* key_str.starts_with(&prefix)
starts_with(k, pre) == Len(k) >= Len(pre) /\ SubSeq(k, 1, Len(pre)) = pre

\* The handler's first storage call.
FirstCall(r) ==
  CASE r.name = "save_pda" ->
         [kind |-> "write", key |-> r.pda, value |-> Text(r.pda), table |-> "daopda"]
    [] r.name = "get_all_pdas" ->
         [kind |-> "read_all", table |-> "daopda"]
    [] r.name = "save_community" ->
         [kind |-> "write", key |-> r.pda, value |-> to_string("Community", r.body),
          table |-> "community"]
    [] r.name = "profile_write" ->
         [kind |-> "write", key |-> user_profile(r.parts).user_address,
          value |-> to_string("UserProfile", user_profile(r.parts)),
          table |-> "user_profiles"]
    [] r.name = "get_profile_by_address" ->
         [kind |-> "read", key |-> r.address, table |-> "user_profiles"]
    [] r.name = "write" ->
         [kind |-> "write", key |-> r.key, value |-> r.value, table |-> r.table]
    [] r.name \in Lookups ->
         [kind |-> "read_all", table |-> LookupTable(r.name)]
    [] OTHER ->
         [kind |-> "read", key |-> r.pda, table |-> "community"]

\* The counter the community of r.pda has stored, 0 when there is none.
Stored(r) ==
  IF /\ "community" \in DOMAIN env /\ r.pda \in DOMAIN env["community"]
     /\ from_str("Community", env["community"][r.pda]).ok
  THEN Count(from_str("Community", env["community"][r.pda]).val, r.name)
  ELSE 0

\* The appends of r's kind to r's community that other threads are serving.
InFlight(p, r) ==
  Cardinality({q \in Procs \ {p} :
     pc[q] # "resp" /\ h[q] # NoReq /\ h[q].name = r.name /\ h[q].req.pda = r.pda})

\* History: request r arrives while another thread's profile_write for the
\* same address has not returned yet.
Joins(p, r) ==
  /\ r.name = "profile_write"
  /\ \E q \in Procs \ {p} :
       /\ h[q] # NoReq /\ pc[q] # "resp" /\ h[q].name = "profile_write"
       /\ user_profile(h[q].req.parts).user_address
            = user_profile(r.parts).user_address

\* A request arrives.  An invalid one is answered at once; a valid one makes
\* its first storage call.
Request(p, reqs) ==
  /\ pc[p] = "idle"
  /\ \E r \in reqs :
       /\ r.name \in Appends => Stored(r) + InFlight(p, r) < MaxCount
       /\ IF Valid(r)
          THEN /\ h' = [h EXCEPT ![p] = [req |-> r, name |-> r.name, stage |-> "first",
                                         upd |-> NoOp, resp |-> NoOp,
                                         raced |-> Joins(p, r), last |-> FALSE]]
               /\ op' = [op EXCEPT ![p] = FirstCall(r)]
               /\ pc' = [pc EXCEPT ![p] = "lock"]
          ELSE /\ h' = [h EXCEPT ![p] = [req |-> r, name |-> r.name, stage |-> "done",
                                         upd |-> NoOp, raced |-> FALSE, last |-> FALSE,
                                         resp |-> Reject(r)]]
               /\ op' = op
               /\ pc' = [pc EXCEPT ![p] = "resp"]
  /\ UNCHANGED <<env, lock, txn, res, scan, fault, acked, env0, slots, log>>

\* The sequences that list every element of S once: the orders in which a
\* HashMap can be iterated.
Orders(S) == {s \in [1..Cardinality(S) -> S] : \A i, j \in DOMAIN s : i # j => s[i] # s[j]}

\* database.write(&content_key, &content_json, "content")
ChildCall(q, c) ==
  [kind |-> "write", key |-> ChildKey(q.req.pda, Count(c, q.name)),
   value |-> to_string(ChildType(q.name), q.req.body), table |-> ChildTable(q.name)]

\* database.write(&query.pda, &updated_community_json, "community")
ParentCall(q, c) ==
  [kind |-> "write", key |-> q.req.pda, value |-> to_string("Community", c),
   table |-> "community"]

\* An append that writes the community first and the child after it.
AppendCall_parent_first(q, c, stage) ==
  IF stage = "first" THEN ParentCall(q, c) ELSE ChildCall(q, c)

\* The two writes of an append with the updated community c: the child once
\* the community has been read, the community once the child is written.
AppendCall(q, c, stage) ==
  IF stage = "first" THEN ChildCall(q, c) ELSE ParentCall(q, c)

\* A lookup that stores the default profile it answers with.
OnMissing_persists(q) ==
  [kind |-> "write", key |-> q.req.address,
   value |-> to_string("UserProfile", default_profile(q.req.address)),
   table |-> "user_profiles"]

\* The storage call get_profile_by_address makes when it found no record:
\* none, it builds the default profile and returns it.
OnMissing(q) == NoOp

\* What the handler does with the result r of its storage call: answer
\* (resp), or make the next call (call).  `now` is the clock, `ord` the order
\* in which the HashMap of read_all is iterated.
Step(q, r, now, ord) ==
  LET answer(a) == [q EXCEPT !.resp = a, !.stage = "done"]
      absent(a) == [q EXCEPT !.resp = a, !.stage = "not_found"]
      failed == answer([status |-> "DatabaseError"])
      invalid == answer([status |-> "SerializationError"])
      ok == answer([status |-> "OK"])
  IN
  IF ~r.ok THEN [h |-> failed, call |-> NoOp]
  ELSE CASE q.name \in {"save_pda", "save_community"} -> [h |-> ok, call |-> NoOp]
    [] q.name = "get_all_pdas" ->
         [h |-> answer([status |-> "OK", pdas |-> ord]), call |-> NoOp]
    [] q.name \in Appends /\ q.stage = "first" ->
         IF ~r.val.some
         THEN [h |-> absent([status |-> "ValidationError"]), call |-> NoOp]
         ELSE LET parsed == from_str("Community", r.val.v)
              IN IF ~parsed.ok
                 THEN [h |-> invalid, call |-> NoOp]
                 ELSE LET c == Bump(parsed.val, q.name, now)
                      IN [h |-> [q EXCEPT !.stage = "child", !.upd = c],
                          call |-> AppendCall(q, c, "first")]
    [] q.name \in Appends /\ q.stage = "child" ->
         [h |-> [q EXCEPT !.stage = "parent"],
          call |-> AppendCall(q, q.upd, "child")]
    [] q.name = "get_community_by_pda" ->
         IF ~r.val.some
         THEN [h |-> absent([status |-> "ValidationError"]), call |-> NoOp]
         ELSE LET parsed == from_str("Community", r.val.v)
              IN IF ~parsed.ok
                 THEN [h |-> invalid, call |-> NoOp]
                 ELSE [h |-> answer([status |-> "OK", community |-> parsed.val]),
                       call |-> NoOp]
    [] q.name \in Lookups ->
         LET keys == SelectSeq(ord, LAMBDA k :
                       Utf8(k) /\ starts_with(k, Prefix(q.req.pda)))
             parsed == [i \in DOMAIN keys |->
                          from_str(LookupType(q.name), r.val[keys[i]])]
         IN IF \E i \in DOMAIN keys : ~parsed[i].ok
            THEN [h |-> invalid, call |-> NoOp]
            ELSE [h |-> answer([status |-> "OK",
                                contents |-> [i \in DOMAIN keys |-> parsed[i].val]]),
                  call |-> NoOp]
    [] q.name = "get_profile_by_address" ->
         IF ~r.val.some
         THEN [h |-> absent([status |-> "OK",
                             profile |-> default_profile(q.req.address)]),
               call |-> OnMissing(q)]
         ELSE LET parsed == from_str("UserProfile", r.val.v)
              IN IF ~parsed.ok
                 THEN [h |-> invalid, call |-> NoOp]
                 ELSE [h |-> answer([status |-> "OK", profile |-> parsed.val]),
                       call |-> NoOp]
    [] OTHER -> [h |-> ok, call |-> NoOp]

\* The handler is about to increment a counter that stands at the bound.
AtBound(p) ==
  /\ h[p].name \in Appends /\ h[p].stage = "first"
  /\ res[p].ok /\ res[p].val.some
  /\ from_str("Community", res[p].val.v).ok
  /\ Count(from_str("Community", res[p].val.v).val, h[p].name) >= MaxCount

\* History: request n, which has just formatted its child key, found another
\* thread's append to the same community under way with the same key.
Overlaps(p, n) ==
  /\ n.stage = "child"
  /\ \E q \in Procs \ {p} :
       /\ pc[q] # "resp" /\ h[q] # NoReq
       /\ h[q].name = n.name /\ h[q].stage \in {"child", "parent"}
       /\ h[q].req.pda = n.req.pda
       /\ Count(h[q].upd, n.name) = Count(n.upd, n.name)

\* The storage call has returned to the handler.
Resume(p) ==
  /\ pc[p] = "back"
  /\ ~AtBound(p)
  /\ \E now \in Clock :
     \E ord \in Orders(IF h[p].name \in {"get_all_pdas"} \cup Lookups /\ res[p].ok
                       THEN DOMAIN res[p].val ELSE {}) :
       LET s == Step(h[p], res[p], now, ord)
       IN /\ h' = [h EXCEPT ![p] = [s.h EXCEPT !.raced = @ \/ Overlaps(p, s.h)]]
          /\ op' = [op EXCEPT ![p] = s.call]
          /\ pc' = [pc EXCEPT ![p] = IF s.call = NoOp THEN "resp" ELSE "lock"]
  /\ res' = [res EXCEPT ![p] = NoRes]
  /\ UNCHANGED <<env, lock, txn, scan, fault, acked, env0, slots>>

Continue(p) == Resume(p) /\ UNCHANGED log

\* The response is sent; the thread is free for the next request.
Finish(p) ==
  /\ pc[p] = "resp"
  /\ pc' = [pc EXCEPT ![p] = "idle"]
  /\ h' = [h EXCEPT ![p] = NoReq]
  /\ op' = [op EXCEPT ![p] = NoOp]
  /\ UNCHANGED <<env, lock, txn, res, scan, fault, acked, env0, slots, log>>

\* save_community and save_content, on two threads.
NextDao ==
  \E p \in Threads :
    \/ Request(p, DaoRequests(p, {"save_content"})) \/ Continue(p) \/ Finish(p)
    \/ Lock(p) \/ Begin(p) \/ BeginFail(p)
    \/ CreateTable(p) \/ CreateTableFail(p)
    \/ Put(p) \/ PutFail(p)
    \/ Commit(p) \/ CommitFail(p)
    \/ OpenTable(p) \/ OpenTableAbsent(p) \/ OpenTableFail(p)
    \/ Get(p) \/ GetFail(p)
    \/ Unlock(p)

SpecDao == Init /\ [][NextDao]_vars

\* save_pda and get_all_pdas, on three threads.
NextPda ==
  \E p \in Procs :
    \/ Request(p, PdaRequests(p)) \/ Continue(p) \/ Finish(p)
    \/ Lock(p) \/ Begin(p) \/ BeginFail(p)
    \/ CreateTable(p) \/ CreateTableFail(p)
    \/ Put(p) \/ PutFail(p)
    \/ Commit(p) \/ CommitFail(p)
    \/ OpenTable(p) \/ OpenTableAbsent(p) \/ OpenTableFail(p)
    \/ Cursor(p) \/ CursorFail(p)
    \/ ScanItem(p) \/ ScanFail(p) \/ ScanEnd(p)
    \/ Unlock(p)

SpecPda == Init /\ [][NextPda]_vars

\* The profile requests of thread p for one address: its own profile, and a
\* lookup.
LinRequests(p) ==
       {[name |-> "profile_write",
         parts |-> <<Part("user_address", a, None), Part("user_id", <<64 + p>>, None)>>] :
          a \in Addresses}
  \cup {[name |-> "get_profile_by_address", address |-> a] : a \in Addresses}

\* profile_write and get_profile_by_address for one address, on three threads.
NextLin ==
  \E p \in Procs :
    \/ Request(p, LinRequests(p)) \/ Continue(p) \/ Finish(p)
    \/ Lock(p) \/ Begin(p) \/ BeginFail(p)
    \/ CreateTable(p) \/ CreateTableFail(p)
    \/ Put(p) \/ PutFail(p)
    \/ Commit(p) \/ CommitFail(p)
    \/ OpenTable(p) \/ OpenTableAbsent(p) \/ OpenTableFail(p)
    \/ Get(p) \/ GetFail(p)
    \/ Unlock(p)

SpecLin == Init /\ [][NextLin]_vars

\* The requests of the two clients of the HTTP interface: thread 1 looks
\* communities and profiles up and appends contents; thread 2 stores a
\* community and a profile, and is also the other program that writes a text
\* of its own under their keys.
HttpRequests(p) ==
  IF p = 1
  THEN      {[name |-> "get_community_by_pda", pda |-> a] : a \in Pdas \cup {<<>>}}
       \cup {[name |-> "get_profile_by_address", address |-> a] :
               a \in Addresses \cup {<<>>}}
       \cup {[name |-> "save_content", pda |-> a, body |-> ChildBody("save_content", p)] :
               a \in Pdas \cup {<<>>}}
  ELSE      {[name |-> "save_community", pda |-> a, body |-> c] :
               a \in Pdas \cup {<<>>}, c \in Communities}
       \cup {[name |-> "profile_write",
               parts |-> <<Part("user_address", a, None),
                           Part("user_id", <<64 + p>>, None)>>] :
               a \in Addresses \cup {<<>>}}
       \cup {[name |-> "write", key |-> <<80>>, value |-> Text(<<80>>),
               table |-> "community"],
             [name |-> "write", key |-> <<85>>, value |-> Text(<<85>>),
               table |-> "user_profiles"]}

NextHttp ==
  \E p \in Threads :
    \/ Request(p, HttpRequests(p)) \/ Continue(p) \/ Finish(p)
    \/ Lock(p) \/ Begin(p) \/ BeginFail(p)
    \/ CreateTable(p) \/ CreateTableFail(p)
    \/ Put(p) \/ PutFail(p)
    \/ Commit(p) \/ CommitFail(p)
    \/ OpenTable(p) \/ OpenTableAbsent(p) \/ OpenTableFail(p)
    \/ Get(p) \/ GetFail(p)
    \/ Unlock(p)

SpecHttp == Init /\ [][NextHttp]_vars

\* The requests of the clients of the profile interface: thread 1 submits
\* multipart bodies to profile_write, thread 2 looks profiles up.
ProfileRequests(p) ==
  IF p = 1
  THEN {[name |-> "profile_write", parts |-> b] : b \in Bodies(p)}
  ELSE {[name |-> "get_profile_by_address", address |-> a] :
          a \in Addresses \cup {<<>>}}

NextProfile ==
  \E p \in Threads :
    \/ Request(p, ProfileRequests(p)) \/ Continue(p) \/ Finish(p)
    \/ Lock(p) \/ Begin(p) \/ BeginFail(p)
    \/ CreateTable(p) \/ CreateTableFail(p)
    \/ Put(p) \/ PutFail(p)
    \/ Commit(p) \/ CommitFail(p)
    \/ OpenTable(p) \/ OpenTableAbsent(p) \/ OpenTableFail(p)
    \/ Get(p) \/ GetFail(p)
    \/ Unlock(p)

SpecProfile == Init /\ [][NextProfile]_vars

\* Two clients of one community: thread 1 appends contents, thread 2
\* depositors, and either stores the community.
NextCross ==
  \E p \in Threads :
    \/ Request(p, DaoRequests(p, IF p = 1 THEN {"save_content"} ELSE {"save_depositor"}))
    \/ Continue(p) \/ Finish(p)
    \/ Lock(p) \/ Begin(p) \/ BeginFail(p)
    \/ CreateTable(p) \/ CreateTableFail(p)
    \/ Put(p) \/ PutFail(p)
    \/ Commit(p) \/ CommitFail(p)
    \/ OpenTable(p) \/ OpenTableAbsent(p) \/ OpenTableFail(p)
    \/ Get(p) \/ GetFail(p)
    \/ Unlock(p)

SpecCross == Init /\ [][NextCross]_vars

\* The one thread of a program that calls the storage layer directly.
Caller == {1}

\* The GET handlers.
Gets ==
  {"get_all_pdas", "get_community_by_pda", "get_profile_by_address"} \cup Lookups

\* The direct calls of a program that reads, and writes one value to one
\* table.
GetOps ==
  {o \in RawOps :
     /\ o.kind # "batch_write" /\ o.table = "t1"
     /\ o.kind \in {"read", "write"} => o.key = <<97>>
     /\ o.kind = "write" => o.value = Text(<<120>>)}

\* The requests of a client that stores a profile, an address, a community
\* and a content, and calls every GET handler.
GetRequests(p) ==
       LinRequests(p)
  \cup {[name |-> "get_profile_by_address", address |-> <<>>]}
  \cup {[name |-> "save_pda", pda |-> a] : a \in Pdas}
  \cup {[name |-> "get_all_pdas", pda |-> <<>>]}
  \cup {[name |-> n, pda |-> a, body |-> c] :
          n \in {"save_community"}, a \in Pdas, c \in Communities}
  \cup {[name |-> "save_content", pda |-> a, body |-> ChildBody("save_content", p)] :
          a \in Pdas}
  \cup {[name |-> n, pda |-> a] :
          n \in {"get_community_by_pda", "get_contents_by_pda"}, a \in Pdas}

\* One thread that makes direct calls and serves requests, one at a time.
NextGet ==
  \E p \in Caller :
    \/ Call(p) \/ Request(p, GetRequests(p)) \/ Continue(p) \/ Finish(p)
    \/ LockOn(p, GetOps) \/ Begin(p) \/ BeginFail(p)
    \/ CreateTable(p) \/ CreateTableFail(p)
    \/ Put(p) \/ PutFail(p)
    \/ Commit(p) \/ CommitFail(p)
    \/ OpenTable(p) \/ OpenTableAbsent(p) \/ OpenTableFail(p)
    \/ Get(p) \/ GetFail(p)
    \/ Cursor(p) \/ CursorFail(p)
    \/ ScanItem(p) \/ ScanFail(p) \/ ScanEnd(p)
    \/ Unlock(p)

SpecGet == Init /\ [][NextGet]_vars

\* The calls of a caller that writes one table in batches and reads it back.
BatchOps ==
  {o \in RawOps : o.table = "t1" /\ o.kind \in {"batch_write", "read", "read_all"}}

NextBatch ==
  \E p \in Caller :
    \/ Call(p) \/ LockOn(p, BatchOps) \/ Begin(p) \/ BeginFail(p)
    \/ CreateTable(p) \/ CreateTableFail(p)
    \/ BatchPut(p) \/ PutFail(p)
    \/ CommitBatch(p) \/ CommitFail(p)
    \/ OpenTable(p) \/ OpenTableAbsent(p) \/ OpenTableFail(p)
    \/ Get(p) \/ GetFail(p)
    \/ Cursor(p) \/ CursorFail(p)
    \/ ScanItem(p) \/ ScanFail(p) \/ ScanEnd(p)
    \/ Unlock(p)

SpecBatch == Init /\ [][NextBatch]_vars

\* The requests of a client that also sends empty keys and appends to "Q", a
\* community that is never stored.
RejectRequests ==
       {[name |-> "save_pda", pda |-> a] : a \in Pdas \cup {<<>>}}
  \cup {[name |-> "save_community", pda |-> a, body |-> c] :
          a \in Pdas \cup {<<>>}, c \in Communities}
  \cup {[name |-> n, pda |-> a, body |-> ChildBody(n, 1)] :
          n \in Appends, a \in Addrs \cup {<<>>}}

NextReject ==
  \E p \in Caller :
    \/ Request(p, RejectRequests) \/ Continue(p) \/ Finish(p)
    \/ Lock(p) \/ Begin(p) \/ BeginFail(p)
    \/ CreateTable(p) \/ CreateTableFail(p)
    \/ Put(p) \/ PutFail(p)
    \/ Commit(p) \/ CommitFail(p)
    \/ OpenTable(p) \/ OpenTableAbsent(p) \/ OpenTableFail(p)
    \/ Get(p) \/ GetFail(p)
    \/ Unlock(p)

SpecReject == Init /\ [][NextReject]_vars

\* "P" and "P_Q": two communities, the key of one beginning with the key of
\* the other and an underscore.
PrefixPdas == {<<80>>, <<80, 95, 81>>}

\* The requests of a client of two communities: it stores them, appends a
\* content to either, signed with the community's key, and lists the
\* contents of either.
PrefixRequests ==
       {[name |-> "save_community", pda |-> a, body |-> c] :
          a \in PrefixPdas, c \in Communities}
  \cup {[name |-> "save_content", pda |-> a,
         body |-> [ChildBody("save_content", 1) EXCEPT !.author = a]] :
          a \in PrefixPdas}
  \cup {[name |-> "get_contents_by_pda", pda |-> a] : a \in PrefixPdas \cup {<<>>}}

NextPrefix ==
  \E p \in Caller :
    \/ Request(p, PrefixRequests) \/ Continue(p) \/ Finish(p)
    \/ Lock(p) \/ Begin(p) \/ BeginFail(p)
    \/ CreateTable(p) \/ CreateTableFail(p)
    \/ Put(p) \/ PutFail(p)
    \/ Commit(p) \/ CommitFail(p)
    \/ OpenTable(p) \/ OpenTableAbsent(p) \/ OpenTableFail(p)
    \/ Get(p) \/ GetFail(p)
    \/ Cursor(p) \/ CursorFail(p)
    \/ ScanItem(p) \/ ScanFail(p) \/ ScanEnd(p)
    \/ Unlock(p)

SpecPrefix == Init /\ [][NextPrefix]_vars

\* History: the log once the handler has gone on with request q.  A stored
\* community starts it afresh, an append answered OK is added to it, and an
\* append that ended in an error leaves it unclean.
Logged(l, q) ==
  CASE q.resp = NoOp -> l
    [] q.name = "save_community" /\ q.resp.status = "OK" ->
         [base |-> Some(q.req.body), items |-> <<>>, clean |-> TRUE]
    [] q.name \in Appends /\ q.resp.status = "OK" ->
         [l EXCEPT !.items = Append(@, [name |-> q.name, body |-> q.req.body])]
    [] q.name \in Appends /\ q.resp.status \in {"DatabaseError", "SerializationError"} ->
         [l EXCEPT !.clean = FALSE]
    [] OTHER -> l

\* The handler goes on, and its answer is logged.
Record(p) == Resume(p) /\ log' = Logged(log, h'[p])

\* The communities one client stores: every child counter at c, for c = 0, 1.
SeqCommunities ==
  {[admin |-> <<65>>, time_limit |-> 0, base_fee |-> 0, ai_moderation |-> FALSE,
    deposit_share |-> 0, last_activity_timestamp |-> 0, total_deposit |-> 0,
    active_proposal_count |-> c, content_count |-> c, depositor_count |-> c] :
     c \in {0, 1}}

\* The requests of that client: it stores the community P and appends to it
\* children of two submitters, through the one handler it has come to use.
SeqRequests ==
       {[name |-> "save_community", pda |-> a, body |-> c] :
          a \in Pdas, c \in SeqCommunities}
  \cup {[name |-> n, pda |-> a, body |-> ChildBody(n, q)] :
          n \in {m \in Appends : DOMAIN env \subseteq {"community", ChildTable(m)}},
          a \in Pdas, q \in Threads}

\* One client whose requests are served one after another.
NextSeq ==
  \E p \in Caller :
    \/ Request(p, SeqRequests) \/ Record(p) \/ Finish(p)
    \/ Lock(p) \/ Begin(p) \/ BeginFail(p)
    \/ CreateTable(p) \/ CreateTableFail(p)
    \/ Put(p) \/ PutFail(p)
    \/ Commit(p) \/ CommitFail(p)
    \/ OpenTable(p) \/ OpenTableAbsent(p) \/ OpenTableFail(p)
    \/ Get(p) \/ GetFail(p)
    \/ Unlock(p)

SpecSeq == Init /\ [][NextSeq]_vars

\* The tables that program writes, named "1", "2", ...: the newest one it
\* has created, or one more, up to one beyond the engine's limit.
CapTables ==
  {Dec(n) : n \in {Cardinality(DOMAIN env), Cardinality(DOMAIN env) + 1}
                    \cap (1..(max_tables + 1))}

\* database.write("a", "x", table)
CapRequests ==
  {[name |-> "write", key |-> <<97>>, value |-> Text(<<120>>), table |-> t] :
     t \in CapTables}

\* The process ends and is started again: InnerDatabase::new(".") opens the
\* environment the earlier run left at the path.  The stored tables are all
\* there; the new process holds no table handle yet.
Restart ==
  /\ \A p \in Procs : pc[p] = "idle"
  /\ slots # {}
  /\ slots' = {}
  /\ UNCHANGED <<env, lock, txn, pc, op, res, scan, fault, h, acked, env0, log>>

\* One thread writing to ever more tables, across restarts of the process.
NextCap ==
  \/ \E p \in Caller :
       \/ Request(p, CapRequests) \/ Continue(p) \/ Finish(p)
       \/ Lock(p) \/ Begin(p) \/ BeginFail(p)
       \/ CreateTable(p) \/ CreateTableFail(p)
       \/ Put(p) \/ PutFail(p)
       \/ Commit(p) \/ CommitFail(p)
       \/ Unlock(p)
  \/ Restart

SpecCap == Init /\ [][NextCap]_vars

\* ------------------------------------------------------------ properties

\* Thread p holds the result of an operation of kind k that met no engine
\* failure, and has not yet released the lock.
Done(p, k) == pc[p] = "ret" /\ op[p].kind = k /\ ~fault[p]

\* The keys of table t that some write returning Ok has written.
AckedKeys(t) == {x[2] : x \in {y \in DOMAIN acked : y[1] = t}}

\* C1: write/read round trip.  A read of (k, T) that meets no engine failure
\* returns exactly the value of the last write to (k, T) that returned Ok,
\* whichever thread (handle) wrote it.
C1_RoundTrip ==
  \A p \in Procs :
    (Done(p, "read") /\ <<op[p].table, op[p].key>> \in DOMAIN acked)
      => res[p] = Ok(Some(acked[<<op[p].table, op[p].key>>]))

C1_Witness ==
  \E p \in Procs :
    /\ Done(p, "read")
    /\ <<op[p].table, op[p].key>> \in DOMAIN acked
    /\ res[p] = Ok(Some(Text(<<121>>)))


\* The operation thread p has finished as a write kind left the environment
\* as it was when p took the lock.
Untouched == env = env0

\* C2 (as amended): batch_write is all-or-nothing.  After a batch_write that
\* returned Ok, every key of items holds in T the value of its last pair in
\* items; after one that returned an error, from whichever step, the
\* environment - T's entries and T's existence - is as before the call.
C2_BatchAllOrNothing ==
  \A p \in Procs :
    (pc[p] = "ret" /\ op[p].kind = "batch_write") =>
      IF res[p].ok
      THEN /\ op[p].table \in DOMAIN env
           /\ \A i \in 1..Len(op[p].items) :
                LET k == op[p].items[i][1]
                    last == CHOOSE j \in 1..Len(op[p].items) :
                              /\ op[p].items[j][1] = k
                              /\ \A m \in (j+1)..Len(op[p].items) : op[p].items[m][1] # k
                IN /\ k \in DOMAIN env[op[p].table]
                   /\ env[op[p].table][k] = op[p].items[last][2]
      ELSE Untouched

\* A batch of two pairs failed at commit, after creating its table.
C2_Witness ==
  \E p \in Procs :
    /\ pc[p] = "ret" /\ op[p].kind = "batch_write"
    /\ res[p] = Err("commit")
    /\ Len(op[p].items) = 2
    /\ op[p].table \notin DOMAIN env0

\* The pair (k, v) is an entry of table t.
Present(e, t, k, v) == t \in DOMAIN e /\ k \in DOMAIN e[t] /\ e[t][k] = v

\* C2 as stated: after Ok every pair of items is present; after an error none
\* of the pairs is present and the environment is as before.
C2_AsStated ==
  \A p \in Procs :
    (pc[p] = "ret" /\ op[p].kind = "batch_write") =>
      IF res[p].ok
      THEN \A i \in 1..Len(op[p].items) :
             Present(env, op[p].table, op[p].items[i][1], op[p].items[i][2])
      ELSE /\ Untouched
           /\ \A i \in 1..Len(op[p].items) :
                ~Present(env, op[p].table, op[p].items[i][1], op[p].items[i][2])

\* C3: a write that returns an error, from begin, create_table, put or
\* commit, leaves no trace: the value of k in T is unchanged and a table that
\* did not exist still does not.
C3_WriteAtomicOnFailure ==
  \A p \in Procs :
    (pc[p] = "ret" /\ op[p].kind = "write" /\ ~res[p].ok) =>
      /\ DOMAIN env = DOMAIN env0
      /\ \A t \in DOMAIN env : env[t] = env0[t]

\* A first write to a new table failed at commit.
C3_Witness ==
  \E p \in Procs :
    /\ pc[p] = "ret" /\ op[p].kind = "write"
    /\ res[p] = Err("commit")
    /\ op[p].table \notin DOMAIN env

\* Thread p is inside an operation: past lock(), not yet returned.
InOperation(p) == pc[p] \notin {"idle", "lock"}

\* C4: mutual exclusion.  A thread inside an operation holds the lock, from
\* before its transaction begins until after the transaction is committed or
\* dropped; so at most one transaction is open and no two operations overlap.
C4_MutualExclusion ==
  /\ \A p \in Procs : InOperation(p) => lock = p
  /\ \A p \in Procs : txn[p] # NoTxn => InOperation(p)
  /\ Cardinality({p \in Procs : txn[p] # NoTxn}) <= 1

\* A read_all is half-way through its scan while another thread waits.
C4_Witness ==
  \E p, q \in Procs :
    /\ pc[p] = "scan" /\ scan[p].seen # {} /\ Remaining(p) # {}
    /\ pc[q] = "lock"

\* C7: overwrite.  A write of v to a key that already has a value in T, once
\* it returns Ok, leaves v as the key's value and T with the same keys and,
\* for every other key, the same value.
C7_Overwrite ==
  \A p \in Procs :
    (pc[p] = "ret" /\ op[p].kind = "write" /\ res[p].ok
       /\ <<op[p].table, op[p].key>> \in DOMAIN acked
       /\ op[p].table \in DOMAIN env0 /\ op[p].key \in DOMAIN env0[op[p].table]) =>
      /\ env[op[p].table][op[p].key] = op[p].value
      /\ acked[<<op[p].table, op[p].key>>] = op[p].value
      /\ DOMAIN env[op[p].table] = DOMAIN env0[op[p].table]
      /\ \A j \in DOMAIN env[op[p].table] \ {op[p].key} :
           env[op[p].table][j] = env0[op[p].table][j]

\* A write replaced a different value.
C7_Witness ==
  \E p \in Procs :
    /\ pc[p] = "ret" /\ op[p].kind = "write" /\ res[p].ok
    /\ op[p].table \in DOMAIN env0 /\ op[p].key \in DOMAIN env0[op[p].table]
    /\ env0[op[p].table][op[p].key] # op[p].value
    /\ env[op[p].table][op[p].key] = op[p].value

\* C8: absence is a value.  A read that meets no engine failure returns
\* Ok(None) when no write to (k, T) has returned Ok - T never written, or
\* written without k - and a read_all of a never-written T returns Ok of the
\* empty map.
C8_AbsenceIsValue ==
  \A p \in Procs :
    /\ (Done(p, "read") /\ <<op[p].table, op[p].key>> \notin DOMAIN acked)
         => res[p] = Ok(None)
    /\ (Done(p, "read_all") /\ AckedKeys(op[p].table) = {})
         => res[p] = Ok(EmptyMap)

\* A read of a table that does not exist, beside one that does.
C8_Witness ==
  \E p \in Procs :
    /\ Done(p, "read")
    /\ op[p].table \notin DOMAIN env
    /\ DOMAIN env # {}
    /\ res[p] = Ok(None)

\* C9: read_all is complete and exact.  A read_all of T that meets no engine
\* failure returns the map from every key written to T by a call that
\* returned Ok to the value of the last such call, and nothing else.
C9_ReadAllExact ==
  \A p \in Procs :
    Done(p, "read_all") =>
      /\ res[p].ok
      /\ DOMAIN res[p].val = AckedKeys(op[p].table)
      /\ \A k \in AckedKeys(op[p].table) : res[p].val[k] = acked[<<op[p].table, k>>]

\* A read_all returned two entries.
C9_Witness ==
  \E p \in Procs :
    /\ Done(p, "read_all")
    /\ Cardinality(DOMAIN res[p].val) = 2

\* C10: table isolation.  A write or batch_write to A, whatever it returns,
\* leaves every other table as it was; and a read of k from B that meets no
\* engine failure returns Ok(None) when k was written to A only.
C10_TableIsolation ==
  \A p \in Procs :
    /\ (pc[p] = "ret" /\ IsWrite(op[p])) =>
         \A b \in (DOMAIN env \cup DOMAIN env0) \ {op[p].table} :
           b \in DOMAIN env /\ b \in DOMAIN env0 /\ env[b] = env0[b]
    /\ (Done(p, "read") /\ <<op[p].table, op[p].key>> \notin DOMAIN acked
          /\ \E a \in RawTables : <<a, op[p].key>> \in DOMAIN acked)
         => res[p] = Ok(None)

\* k is in A, B exists without k, and a read of k from B found nothing.
C10_Witness ==
  \E p \in Procs :
    /\ Done(p, "read")
    /\ op[p].table \in DOMAIN env
    /\ op[p].key \notin DOMAIN env[op[p].table]
    /\ \E a \in DOMAIN env : op[p].key \in DOMAIN env[a]
    /\ res[p] = Ok(None)


\* Thread p has answered OK to a request of handler name.
Answered(p, name) ==
  pc[p] = "resp" /\ h[p].name = name /\ h[p].resp = [status |-> "OK"]

\* C5: concurrent writers lose nothing.  When two save_pda requests - two
\* write calls to table daopda from two clones of the handle - with distinct
\* addresses have both returned OK, a read_all of daopda run afterwards by a
\* third thread, and meeting no engine failure, holds both pairs, however the
\* two writes were interleaved.
C5_ConcurrentWriters ==
  \A p, q, r \in Procs :
    (/\ Answered(p, "save_pda") /\ Answered(q, "save_pda")
     /\ h[p].req.pda # h[q].req.pda
     /\ Done(r, "read_all") /\ op[r].table = "daopda")
    => /\ res[r].ok
       /\ {h[p].req.pda, h[q].req.pda} \subseteq DOMAIN res[r].val
       /\ res[r].val[h[p].req.pda] = Text(h[p].req.pda)
       /\ res[r].val[h[q].req.pda] = Text(h[q].req.pda)

C5_Witness ==
  \E p, q, r \in Procs :
    /\ Answered(p, "save_pda") /\ Answered(q, "save_pda")
    /\ h[p].req.pda # h[q].req.pda
    /\ Done(r, "read_all") /\ op[r].table = "daopda"
    /\ Cardinality(DOMAIN res[r].val) = 2

\* The counter of community a as stored, and the child stored under key k.
StoredCount(a) == env["community"][a].v.content_count

\* Threads p and q have both answered OK to a save_content for the same
\* community after reading the same counter, the second of them while the
\* other's request was under way.
Raced(p, q) ==
  /\ p # q
  /\ Answered(p, "save_content") /\ Answered(q, "save_content")
  /\ h[p].req.pda = h[q].req.pda
  /\ h[p].upd.content_count = h[q].upd.content_count
  /\ h[p].raced \/ h[q].raced

\* C6: the child-append race.  Whenever two save_content requests for one
\* community have read the same counter n and both answered OK, the stored
\* counter is n + 1, not n + 2, and the two contents went to the one key
\* '<pda>_<n+1>' (n + 1 a single digit here), which holds the content of one
\* of the two requests only.
C6_ChildAppendRace ==
  \A p, q \in Threads :
    Raced(p, q) =>
      LET a == h[p].req.pda
          k == a \o <<95, 48 + h[p].upd.content_count>>
      IN /\ StoredCount(a) = h[p].upd.content_count
         /\ k \in DOMAIN env["content"]
         /\ env["content"][k] \in {to_string("Content", h[p].req.body),
                                   to_string("Content", h[q].req.body)}

\* Both requests read 0 and answered OK: the counter is 1, the only child is
\* P_1, and it is the second thread's; the first thread's content is lost.
C6_Witness ==
  \E p, q \in Threads :
    /\ Raced(p, q)
    /\ h[p].upd.content_count = 1
    /\ StoredCount(h[p].req.pda) = 1
    /\ h[p].req.pda = <<80>>
    /\ DOMAIN env["content"] = {<<80, 95, 49>>}
    /\ env["content"][<<80, 95, 49>>] = to_string("Content", h[q].req.body)

\* The profile thread p's profile_write submitted, as it is stored.
Submitted(p) == to_string("UserProfile", user_profile(h[p].req.parts))

\* Threads p and q have both answered OK to a profile_write for address a,
\* one of them called while the other had not returned, and p's write is the
\* one that committed last.
LastOfTwo(p, q, a) ==
  /\ p # q
  /\ Answered(p, "profile_write") /\ Answered(q, "profile_write")
  /\ user_profile(h[p].req.parts).user_address = a
  /\ user_profile(h[q].req.parts).user_address = a
  /\ h[p].raced \/ h[q].raced
  /\ h[p].last

\* C11: writes are linearized by commit order.  When two concurrent writes to
\* one (k, T) have both returned Ok, a read of (k, T) that takes the lock
\* afterwards and meets no engine failure returns the value of the write that
\* committed last; and every such read returns what was committed for (k, T)
\* at the moment it took the lock, nothing older and nothing uncommitted.
C11_CommitOrder ==
  /\ \A p, q, r \in Procs : \A a \in Addresses :
       (/\ LastOfTwo(p, q, a)
        /\ Done(r, "read") /\ op[r].table = "user_profiles" /\ op[r].key = a)
       => res[r] = Ok(Some(Submitted(p)))
  /\ \A r \in Procs :
       Done(r, "read") =>
         res[r] = Ok(IF /\ op[r].table \in DOMAIN env0
                        /\ op[r].key \in DOMAIN env0[op[r].table]
                     THEN Some(env0[op[r].table][op[r].key])
                     ELSE None)

\* p was called first and committed last: q, called while p was under way,
\* got the lock before p; the read returns p's profile, not q's.
C11_Witness ==
  \E p, q, r \in Procs : \E a \in Addresses :
    /\ LastOfTwo(p, q, a)
    /\ h[q].raced /\ ~h[p].raced
    /\ Done(r, "read") /\ op[r].table = "user_profiles" /\ op[r].key = a
    /\ res[r] = Ok(Some(Submitted(p)))
    /\ Submitted(p) # Submitted(q)

\* The steps of an operation between lock() and its return: none of them
\* waits for anything.
Inside(q) ==
  \/ Begin(q) \/ BeginFail(q) \/ CreateTable(q) \/ CreateTableFail(q)
  \/ Put(q) \/ BatchPut(q) \/ PutFail(q) \/ Commit(q) \/ CommitFail(q)
  \/ OpenTable(q) \/ OpenTableAbsent(q) \/ OpenTableFail(q)
  \/ Get(q) \/ GetFail(q) \/ Cursor(q) \/ CursorFail(q)
  \/ ScanItem(q) \/ ScanFail(q) \/ ScanEnd(q) \/ Unlock(q)

\* How far thread q is from its return: the statements still ahead, and the
\* turns its loop has left.
Ahead(q) ==
  CASE pc[q] = "begin" -> 5
    [] pc[q] = "table" -> 4
    [] pc[q] = "cursor" -> 3
    [] pc[q] \in {"put", "get", "scan"} -> 2
    [] pc[q] = "commit" -> 1
    [] OTHER -> 0

Turns(q) ==
  IF pc[q] = "scan" THEN Cardinality(Remaining(q))
  ELSE IF pc[q] = "put" /\ op[q].kind = "batch_write"
  THEN Len(op[q].items) + 1 - txn[q].i
  ELSE 0

\* Thread q takes a step of its own.
Moves(q) == <<pc[q], txn[q], scan[q]>>' # <<pc[q], txn[q], scan[q]>>

\* C12: deadlock freedom.  A thread waiting for the lock does not hold it;
\* whenever some thread waits, either the lock is free and the waiter can take
\* it, or the thread holding it is inside an operation and has a step it can
\* take now; and every step the holder takes brings it closer to its return
\* (fewer statements ahead, or fewer loop turns left) with the lock still its
\* own, so the holder finishes without acquiring anything further.
C12_DeadlockFree ==
  /\ [](\A p \in Procs :
          pc[p] = "lock" =>
            /\ lock # p
            /\ \/ lock = 0 /\ ENABLED Lock(p)
               \/ lock \in Procs /\ InOperation(lock) /\ ENABLED Inside(lock))
  /\ [][\A q \in Procs :
          (lock = q /\ pc[q] # "ret" /\ Moves(q)) =>
            /\ lock' = q
            /\ \/ Ahead(q)' < Ahead(q)
               \/ Ahead(q)' = Ahead(q) /\ Turns(q)' < Turns(q)]_vars

\* A batch_write has one put of two left to do while the other thread waits
\* for the lock.
C12_Witness ==
  \E p, q \in Procs :
    /\ lock = p /\ pc[p] = "put" /\ op[p].kind = "batch_write"
    /\ Len(op[p].items) = 2 /\ txn[p].i = 2
    /\ pc[q] = "lock"

\* C13 as stated: every failure of the engine inside an operation - begin,
\* open or create of the table, get, put, cursor step, commit - is returned
\* to the caller as an error; read and read_all return an error, not
\* Ok(None) or Ok of the empty map, when opening the table fails.
C13_AsStated ==
  \A p \in Procs : (pc[p] = "ret" /\ fault[p]) => ~res[p].ok

\* Thread p, serving a request or not, is inside a storage operation.
InCall(p) == InOperation(p) /\ pc[p] \notin {"back", "resp"}

\* C14: clones share state.  Every thread works through its own clone of the
\* handle.  A profile committed through one clone - the last commit there
\* is - is what a read through any other clone returns, when it meets no
\* engine failure; two clones never are inside an operation together (one
\* lock); and handing a clone to a request changes neither the stored data
\* nor the lock.
C14_ClonesShare ==
  /\ [](\A p, r \in Procs : \A a \in Addresses :
          (/\ p # r
           /\ Answered(p, "profile_write") /\ h[p].last
           /\ user_profile(h[p].req.parts).user_address = a
           /\ Done(r, "read") /\ op[r].table = "user_profiles" /\ op[r].key = a)
          => res[r] = Ok(Some(Submitted(p))))
  /\ [](\A p, r \in Procs : (InCall(p) /\ InCall(r)) => p = r)
  /\ [][\A p \in Procs :
          (pc[p] = "idle" /\ pc'[p] # "idle") => (env' = env /\ lock' = lock)]_vars

\* Thread r reads, through its clone, the profile thread p stored through
\* its own, while the third thread has done nothing.
C14_Witness ==
  \E p, r \in Procs :
    /\ p # r
    /\ Answered(p, "profile_write") /\ h[p].last
    /\ Done(r, "read") /\ op[r].table = "user_profiles"
    /\ res[r] = Ok(Some(Submitted(p)))
    /\ \A q \in Procs \ {p, r} : h[q] = NoReq

\* Environment e holds a record for community a.
HasCommunity(e, a) == "community" \in DOMAIN e /\ a \in DOMAIN e["community"]

\* C15 as stated: the child counters persisted in a community's record never
\* decrease, whatever requests are served: no step takes content_count,
\* depositor_count or active_proposal_count of a stored community to a
\* smaller value.
C15_AsStated ==
  [][\A a \in Pdas :
       (HasCommunity(env, a) /\ HasCommunity(env, a)') =>
         LET c == env["community"][a].v
             d == env'["community"][a].v
         IN /\ d.content_count >= c.content_count
            /\ d.depositor_count >= c.depositor_count
            /\ d.active_proposal_count >= c.active_proposal_count]_vars

\* Call o writes key k.
Writes(o, k) ==
  IF o.kind = "write" THEN o.key = k
  ELSE \E i \in 1..Len(o.items) : o.items[i][1] = k

\* C16: nothing is ever removed.  No step takes a table out of the
\* environment or a key out of a table, and the value of a key changes only in
\* the commit of a write or batch_write to that key and table that returns Ok.
C16_NothingRemoved ==
  [][\A t \in DOMAIN env :
       /\ t \in DOMAIN env'
       /\ \A k \in DOMAIN env[t] :
            /\ k \in DOMAIN env'[t]
            /\ env'[t][k] # env[t][k] =>
                 \E p \in Procs :
                   /\ pc[p] = "commit" /\ pc'[p] = "ret" /\ res'[p].ok
                   /\ IsWrite(op[p]) /\ op[p].table = t /\ Writes(op[p], k)]_vars

\* A write has replaced the value of one of two keys of a table, with two
\* tables in the environment: both tables and both keys are still there.
C16_Witness ==
  \E p \in Procs :
    /\ pc[p] = "ret" /\ op[p].kind = "write" /\ res[p].ok
    /\ Cardinality(DOMAIN env0) = 2 /\ DOMAIN env = DOMAIN env0
    /\ Cardinality(DOMAIN env0[op[p].table]) = 2
    /\ DOMAIN env[op[p].table] = DOMAIN env0[op[p].table]
    /\ env0[op[p].table][op[p].key] # env[op[p].table][op[p].key]

LooksUp(p, ty) ==
  /\ pc[p] = "back" /\ h[p].stage = "first"
  /\ \/ h[p].name \in {"get_community_by_pda", "save_content"} /\ ty = "Community"
     \/ h[p].name = "get_profile_by_address" /\ ty = "UserProfile"

\* The status thread p answers with in the step that takes it to its response.
Answers(p, code) ==
  (pc[p] # "resp" /\ pc'[p] = "resp") => into_response(h'[p].resp) = code

\* The read returned a value that is not the JSON text of a ty.
Garbled(p, ty) ==
  /\ res[p].ok /\ res[p].val.some
  /\ ~("json" \in DOMAIN res[p].val.v /\ res[p].val.v.json = ty)

\* C18 (as amended): HTTP failure mapping.  A request that fails the
\* handler's validation is answered 400; a storage call that returns an error
\* is answered 500; a stored record that does not deserialize is answered
\* 500; a community that is not found is answered 400; a profile that is not
\* found is answered 200 with the default profile for the address.
C18_FailureMapping ==
  [][\A p \in Procs :
       /\ (pc[p] = "idle" /\ pc'[p] = "resp") => Answers(p, 400)
       /\ (pc[p] = "back" /\ ~res[p].ok) => Answers(p, 500)
       /\ \A ty \in {"Community", "UserProfile"} :
            /\ (LooksUp(p, ty) /\ Garbled(p, ty)) => Answers(p, 500)
            /\ (LooksUp(p, ty) /\ res[p] = Ok(None)) =>
                 IF ty = "Community" THEN Answers(p, 400)
                 ELSE /\ Answers(p, 200)
                      /\ pc'[p] = "resp" =>
                           h'[p].resp.profile = default_profile(h[p].req.address)]_vars

\* A lookup of a profile address with no stored record, in a table that
\* exists, has been answered 200 with the default profile.
C18_Witness ==
  \E p \in Procs :
    /\ pc[p] = "resp" /\ h[p].name = "get_profile_by_address"
    /\ h[p].stage = "not_found"
    /\ into_response(h[p].resp) = 200
    /\ h[p].resp.profile.user_address = h[p].req.address
    /\ "user_profiles" \in DOMAIN env

\* C18 as stated: a validation failure or a 'not found' condition is answered
\* 400 and a storage or (de)serialization failure 500, in every handler,
\* the lookup of a profile address with no stored record included.
C18_AsStated ==
  [][\A p \in Procs :
       /\ (pc[p] = "idle" /\ pc'[p] = "resp") => Answers(p, 400)
       /\ (pc[p] = "back" /\ ~res[p].ok) => Answers(p, 500)
       /\ \A ty \in {"Community", "UserProfile"} :
            /\ (LooksUp(p, ty) /\ Garbled(p, ty)) => Answers(p, 500)
            /\ (LooksUp(p, ty) /\ res[p] = Ok(None)) => Answers(p, 400)]_vars

\* The parts of a body named n, and the avatar parts that carry bytes.
Named(parts, n) == {i \in DOMAIN parts : parts[i].name = n}

Files(parts) == {i \in Named(parts, "user_avatar") : parts[i].data # <<>>}

Latest(S) == CHOOSE i \in S : \A j \in S : j <= i

\* The text a body submits for field n: that of its last part named n, the
\* empty text when it has none.
SentText(parts, n) ==
  IF Named(parts, n) = {} THEN <<>> ELSE parts[Latest(Named(parts, n))].data

\* The profile a body submits: its texts, and the bytes and the Content-Type
\* header of its last avatar part that carries bytes.
Sent(parts) ==
  [f \in DOMAIN EmptyProfile |->
     CASE f = "user_avatar" ->
            IF Files(parts) = {} THEN None
            ELSE Some(parts[Latest(Files(parts))].data)
       [] f = "avatar_content_type" ->
            IF Files(parts) = {} THEN None
            ELSE parts[Latest(Files(parts))].content_type
       [] OTHER -> SentText(parts, f)]

\* profile_write has answered thread p's request with OK.
Wrote(p) ==
  /\ h[p] # NoReq /\ pc[p] = "resp"
  /\ h[p].name = "profile_write" /\ h[p].resp.status = "OK"

\* Thread q's read(address, "user_profiles") returns, having met no engine
\* failure.
ReadsProfile(q, address) ==
  /\ pc[q] # "ret" /\ pc'[q] = "ret"
  /\ op[q].kind = "read" /\ op[q].table = "user_profiles" /\ op[q].key = address
  /\ ~fault'[q]

\* C19 (as amended): profile_write persists the submitted profile under its
\* address.  A body whose text parts are all readable and whose user_address
\* is non-empty is accepted, and answered OK when the write returns Ok; once
\* it is answered OK, the record stored under the address, and the one a read
\* of the address returns, has every text field equal to the submitted one,
\* user_avatar present exactly when a non-empty avatar part was submitted,
\* and avatar_content_type equal to the Content-Type header of that part:
\* absent when the part has none.
C19_ProfilePersisted ==
  /\ [](\A p \in Threads :
          Wrote(p) =>
            Present(env, "user_profiles", Sent(h[p].req.parts).user_address,
                    to_string("UserProfile", Sent(h[p].req.parts))))
  /\ [][\A p \in Threads :
          /\ ( /\ pc[p] = "idle" /\ pc'[p] # "idle"
               /\ h'[p].name = "profile_write"
               /\ Readable(h'[p].req.parts)
               /\ SentText(h'[p].req.parts, "user_address") # <<>> )
             => pc'[p] = "lock"
          /\ ( /\ pc[p] = "back" /\ pc'[p] = "resp"
               /\ h[p].name = "profile_write" /\ res[p].ok )
             => h'[p].resp.status = "OK"
          /\ \A q \in Threads :
               (Wrote(p) /\ ReadsProfile(q, Sent(h[p].req.parts).user_address))
               => res'[q] = Ok(Some(to_string("UserProfile", Sent(h[p].req.parts))))
       ]_vars

\* A body with an address and an avatar sent as image/jpeg has been answered
\* OK, and a read of the address has returned the stored record.
C19_Witness ==
  \E p, q \in Threads :
    /\ Wrote(p) /\ Files(h[p].req.parts) # {}
    /\ Sent(h[p].req.parts).avatar_content_type = Jpeg
    /\ pc[q] = "ret" /\ op[q].kind = "read"
    /\ res[q] = Ok(Some(to_string("UserProfile", Sent(h[p].req.parts))))

\* C19 as stated: once profile_write has answered OK, the stored record has
\* every text field equal to the submitted one, and user_avatar and
\* avatar_content_type both present exactly when a non-empty avatar part was
\* submitted.
C19_AsStated ==
  \A p \in Threads :
    Wrote(p) =>
      /\ "user_profiles" \in DOMAIN env
      /\ SentText(h[p].req.parts, "user_address") \in DOMAIN env["user_profiles"]
      /\ LET s == from_str("UserProfile",
                    env["user_profiles"][SentText(h[p].req.parts, "user_address")])
         IN /\ s.ok
            /\ \A f \in TextFields : s.val[f] = SentText(h[p].req.parts, f)
            /\ s.val.user_avatar.some = (Files(h[p].req.parts) # {})
            /\ s.val.avatar_content_type.some = (Files(h[p].req.parts) # {})

\* Thread p has just been handed a profile_write whose text parts are all
\* readable and which has no user_address part, or an empty one.
NoAddress(p) ==
  /\ pc[p] = "idle" /\ pc'[p] # "idle"
  /\ h'[p].name = "profile_write"
  /\ Readable(h'[p].req.parts)
  /\ SentText(h'[p].req.parts, "user_address") = <<>>

\* profile_write has answered thread p 'User ID is required'.
Refused(p) ==
  /\ h[p] # NoReq /\ pc[p] = "resp" /\ h[p].name = "profile_write"
  /\ h[p].resp = [status |-> "MultipartError", msg |-> "User ID is required"]

\* C20: profile_write without an address is rejected and writes nothing.  A
\* request with no user_address part or an empty one is answered
\* MultipartError 'User ID is required' (400) at once: it makes no storage
\* call, and no table is changed.
C20_NoAddressRejected ==
  [][\A p \in Threads :
       /\ NoAddress(p) =>
            /\ pc'[p] = "resp"
            /\ h'[p].resp = [status |-> "MultipartError", msg |-> "User ID is required"]
            /\ into_response(h'[p].resp) = 400
            /\ op'[p] = NoOp /\ txn' = txn
            /\ env' = env
       /\ Refused(p) => /\ pc'[p] \in {"resp", "idle"}
                        /\ op'[p] = NoOp
                        /\ pc'[p] = "idle" => env' = env
    ]_vars

\* A request with an empty user_address part has been refused while a
\* profile is stored.
C20_Witness ==
  \E p \in Threads :
    /\ Refused(p)
    /\ Named(h[p].req.parts, "user_address") # {}
    /\ "user_profiles" \in DOMAIN env
    /\ Addresses \cap DOMAIN env["user_profiles"] # {}

\* get_profile_by_address has answered thread p's lookup of a non-empty
\* address with a profile.
Found(p) ==
  /\ h[p] # NoReq /\ pc[p] = "resp"
  /\ h[p].name = "get_profile_by_address" /\ h[p].resp.status = "OK"

\* C21 as stated: get_profile_by_address reports existence.  The response to
\* a lookup of a non-empty address carries a member exists, true together
\* with the stored profile when the lookup found a record and false together
\* with the default profile for the address when it found none.
C21_AsStated ==
  \A p \in Threads :
    Found(p) =>
      /\ "exists" \in DOMAIN h[p].resp
      /\ h[p].resp.exists = (h[p].stage # "not_found")
      /\ h[p].stage = "not_found" =>
           h[p].resp.profile = default_profile(h[p].req.address)

\* Thread p has just been handed a lookup of the empty address.
EmptyLookup(p) ==
  /\ pc[p] = "idle" /\ pc'[p] # "idle"
  /\ h'[p].name = "get_profile_by_address"
  /\ h'[p].req.address = <<>>

\* C22: get_profile_by_address with an empty address returns MultipartError
\* 'Address is required' (400) without issuing any storage operation: the
\* request is answered in the step that receives it, takes no lock, opens no
\* transaction and leaves the stored tables alone.
C22_EmptyAddressRejected ==
  [][\A p \in Threads :
       EmptyLookup(p) =>
         /\ pc'[p] = "resp"
         /\ h'[p].resp = [status |-> "MultipartError", msg |-> "Address is required"]
         /\ into_response(h'[p].resp) = 400
         /\ op'[p] = NoOp
         /\ UNCHANGED <<env, lock, txn, res, slots>>]_vars

\* A lookup of the empty address has been refused while a profile is stored.
C22_Witness ==
  \E p \in Threads :
    /\ h[p] # NoReq /\ pc[p] = "resp"
    /\ h[p].name = "get_profile_by_address" /\ h[p].req.address = <<>>
    /\ h[p].resp.msg = "Address is required"
    /\ "user_profiles" \in DOMAIN env

\* C23: every invoked operation finishes.  Under fair lock acquisition a
\* thread that has called write, read, read_all or batch_write gets the lock
\* and, holding it, reaches its return with a result or an error.
C23_EveryCallReturns ==
  \A p \in Threads : (pc[p] = "lock") ~> (pc[p] = "ret" /\ res[p] # NoRes)

\* A read_all that went round its cursor loop has returned while the other
\* thread waits for the lock.
C23_Witness ==
  \E p, q \in Threads :
    /\ pc[p] = "ret" /\ op[p].kind = "read_all" /\ res[p].ok
    /\ Cardinality(scan[p].seen) >= 2
    /\ pc[q] = "lock"

\* The appends of handler n in the log, in the order they were answered.
Logs(n) == SelectSeq(log.items, LAMBDA x : x.name = n)

\* No request is being served.
Quiet == \A p \in Caller : pc[p] \in {"idle", "resp"}

\* C24: sequential child append.  Starting from a community P stored with
\* counter c, k appends of one handler served one after another with no
\* storage failure leave the counter at c + k and the k submitted children
\* under the keys P_<c+1> .. P_<c+k> of the handler's table, in request
\* order; for save_content, save_depositor and save_proposal alike.
C24_SequentialAppend ==
  (Quiet /\ log.base.some /\ log.clean) =>
    \A a \in Pdas : \A n \in Appends :
      LET c == Count(log.base.v, n)
          k == Len(Logs(n))
      IN /\ Present(env, "community", a,
                    to_string("Community", from_str("Community", env["community"][a]).val))
         /\ Count(from_str("Community", env["community"][a]).val, n) = c + k
         /\ \A i \in 1..k :
              Present(env, ChildTable(n), ChildKey(a, c + i),
                      to_string(ChildType(n), Logs(n)[i].body))

\* Two proposals of different submitters have been appended one after the
\* other and answered OK.
C24_Witness ==
  /\ Quiet /\ log.base.some /\ log.clean
  /\ Len(Logs("save_proposal")) = 2
  /\ Logs("save_proposal")[1] # Logs("save_proposal")[2]

\* The community stored under a, when there is one and it parses.
CommunityOf(e, a) == from_str("Community", e["community"][a]).val

HasParsed(e, a) ==
  /\ "community" \in DOMAIN e /\ a \in DOMAIN e["community"]
  /\ from_str("Community", e["community"][a]).ok

\* C25: children exist up to the counter.  For a community created with
\* content_count = 0 and modified only by save_content requests, in any
\* number, interleaving and with any storage failure, the key P_<i> is
\* present in table content for every i from 1 to the persisted
\* content_count, in every reachable state.
C25_ChildrenUpToCounter ==
  \A a \in Pdas :
    HasParsed(env, a) =>
      \A i \in 1..CommunityOf(env, a).content_count :
        /\ "content" \in DOMAIN env
        /\ ChildKey(a, i) \in DOMAIN env["content"]

\* The counter stands at 1 with two children stored and no request under way:
\* an append wrote P_2 and then failed to write the community.
C25_Witness ==
  \E a \in Pdas :
    /\ HasParsed(env, a) /\ CommunityOf(env, a).content_count = 1
    /\ "content" \in DOMAIN env
    /\ DOMAIN env["content"] = {ChildKey(a, 1), ChildKey(a, 2)}
    /\ \A p \in Threads : pc[p] = "idle"

\* The keys of the map m read from table content under which save_content
\* stores the contents of community a.
ChildrenOf(m, a) == {ChildKey(a, n) : n \in 1..(MaxCount + 1)} \cap DOMAIN m

\* get_contents_by_pda goes on with the map read_all returned for thread p's
\* lookup, and answers with a list.
Lists(p) ==
  /\ pc[p] = "back" /\ h[p].name = "get_contents_by_pda" /\ res[p].ok
  /\ pc'[p] = "resp" /\ h'[p].resp.status = "OK"

\* C26 as stated: prefix lookup returns exactly the parent's children.  For
\* communities P # Q, get_contents_by_pda(P) returns every content appended
\* for P that read_all found in table content and no content appended for Q,
\* also when a key contains '_' or one key is a prefix of the other.
C26_AsStated ==
  [][\A p \in Caller :
       Lists(p) =>
         LET a == h[p].req.pda
             got == h'[p].resp.contents
         IN /\ Len(got) = Cardinality(ChildrenOf(res[p].val, a))
            /\ \A k \in ChildrenOf(res[p].val, a) :
                 \E i \in DOMAIN got : to_string("Content", got[i]) = res[p].val[k]
            /\ \A i \in DOMAIN got : got[i].author = a]_vars

\* Thread p's save_content and thread q's save_depositor for one community
\* have both answered OK, and both had read the same community record.
Crossed(p, q) ==
  /\ p # q
  /\ Answered(p, "save_content") /\ Answered(q, "save_depositor")
  /\ h[p].req.pda = h[q].req.pda
  /\ h[p].upd.content_count = h[q].upd.content_count + 1
  /\ h[q].upd.depositor_count = h[p].upd.depositor_count + 1

\* C27: cross-counter interference.  When a save_content and a save_depositor
\* that read the same community record have both returned success, the stored
\* record is the one written last: it carries that request's increment and
\* has the other counter back at its value before the increment, below the
\* highest child index stored, so that the next append of the other kind
\* writes to a key that already holds a child.
C27_CrossCounter ==
  \A p, q \in Threads :
    Crossed(p, q) =>
      LET a == h[p].req.pda
          stored == CommunityOf(env, a)
      IN /\ HasParsed(env, a)
         /\ h[p].last \/ h[q].last
         /\ h[q].last =>
              /\ stored = h[q].upd
              /\ stored.content_count = h[p].upd.content_count - 1
              /\ ChildKey(a, stored.content_count + 1) \in DOMAIN env["content"]
         /\ h[p].last =>
              /\ stored = h[p].upd
              /\ stored.depositor_count = h[q].upd.depositor_count - 1
              /\ ChildKey(a, stored.depositor_count + 1) \in DOMAIN env["depositor"]

\* Both requests read the counters at 0 and answered OK; the depositor's
\* community write came last: content_count is 0 again while P_1 is stored in
\* table content.
C27_Witness ==
  \E p, q \in Threads :
    /\ Crossed(p, q) /\ h[q].last
    /\ CommunityOf(env, h[p].req.pda).content_count = 0
    /\ CommunityOf(env, h[p].req.pda).depositor_count = 1
    /\ ChildKey(h[p].req.pda, 1) \in DOMAIN env["content"]

\* The write thread p's append made at the given stage has failed, and the
\* handler goes on with the error.
Breaks(p, stage) ==
  /\ pc[p] = "back" /\ pc'[p] = "resp"
  /\ h[p].name \in Appends /\ h[p].stage = stage
  /\ ~res[p].ok

\* The write thread p's append makes at the given stage fails in this step.
WriteFails(p, stage) ==
  /\ h[p] # NoReq /\ h[p].name \in Appends /\ h[p].stage = stage
  /\ pc[p] \in {"begin", "table", "put", "commit"}
  /\ pc'[p] = "ret" /\ ~res'[p].ok

\* The counter of thread p's community stands where it stood when p read it.
CounterKept(p) ==
  /\ HasParsed(env, h[p].req.pda)
  /\ Count(CommunityOf(env, h[p].req.pda), h[p].name)
       = Count(h[p].upd, h[p].name) - 1

\* C28: partial failure of an append is not rolled back.  When the child
\* write of a save_content (save_depositor, save_proposal) request has
\* committed and the following community write fails, the request returns
\* DatabaseError, the child stays stored under P_<n+1> and the counter of P
\* stays n; when the child write itself fails, the request returns
\* DatabaseError and no table has changed.
C28_PartialFailure ==
  [][\A p \in Caller :
       /\ (WriteFails(p, "child") \/ WriteFails(p, "parent")) =>
            env' = env /\ env = env0
       /\ Breaks(p, "child") =>
            /\ h'[p].resp.status = "DatabaseError"
            /\ CounterKept(p)
            /\ env' = env
       /\ Breaks(p, "parent") =>
            /\ h'[p].resp.status = "DatabaseError"
            /\ CounterKept(p)
            /\ Present(env, ChildTable(h[p].name),
                       ChildKey(h[p].req.pda, Count(h[p].upd, h[p].name)),
                       to_string(ChildType(h[p].name), h[p].req.body))
            /\ env' = env]_vars

\* An append whose child write committed and whose community write failed
\* has been answered DatabaseError: the counter is 0 and the child P_1 is
\* stored.
C28_Witness ==
  \E p \in Caller :
    /\ h[p] # NoReq /\ pc[p] = "resp" /\ h[p].name \in Appends
    /\ h[p].resp.status = "DatabaseError"
    /\ h[p].upd # NoOp /\ Count(h[p].upd, h[p].name) = 1
    /\ Count(CommunityOf(env, h[p].req.pda), h[p].name) = 0
    /\ ChildTable(h[p].name) \in DOMAIN env
    /\ DOMAIN env[ChildTable(h[p].name)] = {ChildKey(h[p].req.pda, 1)}

\* The handlers of the DAO interface that store something.
Saves == {"save_pda", "save_community"} \cup Appends

\* Thread p has just been handed a save request with an empty key.
EmptyKey(p) ==
  /\ pc[p] = "idle" /\ pc'[p] # "idle"
  /\ h'[p].name \in Saves /\ h'[p].req.pda = <<>>

\* Thread p's append has read its community and found none.
NotFound(p) ==
  /\ pc[p] = "back" /\ h[p].name \in Appends /\ h[p].stage = "first"
  /\ res[p] = Ok(None)

\* C29: rejected DAO requests change nothing.  save_pda with an empty address
\* and save_community, save_content, save_depositor, save_proposal with an
\* empty pda answer ValidationError (400) before any storage call; an append
\* for a pda with no stored community answers ValidationError after a single
\* read; in all these cases every table is as it was before the request.
C29_RejectedChangeNothing ==
  [][\A p \in Caller :
       /\ EmptyKey(p) =>
            /\ pc'[p] = "resp"
            /\ h'[p].resp = [status |-> "ValidationError"]
            /\ into_response(h'[p].resp) = 400
            /\ op'[p] = NoOp
            /\ UNCHANGED <<env, lock, txn, res, slots>>
       /\ (h[p] # NoReq /\ h[p].name \in Appends /\ h[p].stage = "first") =>
            /\ env' = env
            /\ pc[p] = "begin" => op[p].kind = "read"
       /\ NotFound(p) =>
            /\ pc'[p] = "resp"
            /\ h'[p].resp = [status |-> "ValidationError"]
            /\ h'[p].stage = "not_found"
            /\ op'[p] = NoOp]_vars

\* An append to Q, which has no community, has been answered ValidationError
\* while the community P and a child of it are stored.
C29_Witness ==
  \E p \in Caller :
    /\ h[p] # NoReq /\ pc[p] = "resp" /\ h[p].name \in Appends
    /\ h[p].stage = "not_found" /\ h[p].req.pda = <<81>>
    /\ h[p].resp.status = "ValidationError"
    /\ HasParsed(env, <<80>>)
    /\ ChildTable(h[p].name) \in DOMAIN env

\* The committed environment e once the whole batch o is applied: T exists,
\* and every key of items holds the value of its last pair.
Applied(e, o) ==
  LET old == IF o.table \in DOMAIN e THEN e[o.table] ELSE EmptyMap
      keys == {o.items[i][1] : i \in DOMAIN o.items}
      lastOf(k) == Latest({i \in DOMAIN o.items : o.items[i][1] = k})
  IN Upd(e, o.table,
         [k \in (DOMAIN old) \cup keys |->
            IF k \in keys THEN o.items[lastOf(k)][2] ELSE old[k]])

\* What a reader that took the lock on environment e finds in table t.
TableOf(e, t) == IF t \in DOMAIN e THEN e[t] ELSE EmptyMap

\* C30: a batch is never observed half-applied.  While a batch_write runs the
\* committed environment is the one before the batch; when it has returned
\* the environment is that one or the one with the whole batch applied; and
\* a read or read_all that meets no engine failure returns what was committed
\* when it took the lock, so it sees the keys of items as before the whole
\* batch or as after it, never some pairs applied and others not.
C30_BatchNeverHalfApplied ==
  /\ \A q \in Threads :
       (InCall(q) /\ op[q].kind = "batch_write") =>
         IF pc[q] = "ret"
         THEN env = (IF res[q].ok THEN Applied(env0, op[q]) ELSE env0)
         ELSE env = env0
  /\ \A r \in Threads :
       /\ Done(r, "read_all") => res[r] = Ok(TableOf(env0, op[r].table))
       /\ Done(r, "read") =>
            res[r] = Ok(IF op[r].key \in DOMAIN TableOf(env0, op[r].table)
                        THEN Some(env0[op[r].table][op[r].key]) ELSE None)
  /\ \A q, r \in Threads :
       (InCall(q) /\ op[q].kind = "batch_write" /\ InCall(r)) => q = r

\* A batch of two pairs has its first pair in its transaction and not the
\* second, while the other thread has called an operation and waits for the
\* lock.
C30_Witness ==
  \E q, r \in Threads :
    /\ op[q].kind = "batch_write" /\ pc[q] = "put" /\ txn[q].i = 2
    /\ Len(op[q].items) = 2 /\ op[q].items[1][1] # op[q].items[2][1]
    /\ txn[q].work # env
    /\ pc[r] = "lock"

\* Thread p is inside read or read_all, or serves a GET request.
Reading(p) ==
  \/ InCall(p) /\ op[p].kind \in {"read", "read_all"}
  \/ h[p] # NoReq /\ h[p].name \in Gets

\* C31: reads have no effect on stored state.  read and read_all, whether
\* they return a value, find nothing or fail, leave every table's contents
\* and the set of tables as they were when the call took the lock; a GET
\* handler makes no write call, and no step of it changes the environment:
\* get_profile_by_address answers an unknown address without storing the
\* default profile.
C31_ReadsHaveNoEffect ==
  /\ [](\A p \in Caller :
          /\ (pc[p] = "ret" /\ op[p].kind \in {"read", "read_all"}) =>
               env = env0 /\ DOMAIN env = DOMAIN env0
          /\ (h[p] # NoReq /\ h[p].name \in Gets) => ~IsWrite(op[p]))
  /\ [][\A p \in Caller :
          /\ Reading(p) => env' = env
          /\ ( /\ pc[p] = "back" /\ h[p].name = "get_profile_by_address"
               /\ res[p] = Ok(None) )
             => pc'[p] = "resp" /\ op'[p] = NoOp]_vars

\* get_profile_by_address has answered with the default profile while other
\* tables are stored and user_profiles is not: the lookup did not create it.
C31_Witness ==
  \E p \in Caller :
    /\ Found(p) /\ h[p].stage = "not_found"
    /\ h[p].resp.profile = default_profile(h[p].req.address)
    /\ "t1" \in DOMAIN env /\ "user_profiles" \notin DOMAIN env

\* C32: the lock and the transaction are released on every exit path.  An
\* operation that has reached its return, with Ok or with the error of any
\* step, has no transaction left; a thread outside an operation holds neither
\* the lock nor a transaction; the step that returns leaves the lock free;
\* and a thread that waits for the lock while another returns an error gets
\* the lock and begins its own transaction.
C32_ReleasedOnEveryExit ==
  /\ [](\A p \in Threads :
          /\ pc[p] = "ret" => txn[p] = NoTxn
          /\ pc[p] \in {"idle", "lock"} => lock # p /\ txn[p] = NoTxn)
  /\ [][\A p \in Threads :
          (pc[p] = "ret" /\ pc'[p] # "ret") => lock' = 0 /\ txn'[p] = NoTxn]_vars
  /\ \A p, q \in Threads :
       (p # q /\ pc[p] = "ret" /\ ~res[p].ok /\ pc[q] = "lock")
         ~> (lock = q /\ pc[q] = "begin")

\* A write whose commit failed has returned its error, its transaction
\* abandoned, while the other thread waits for the lock.
C32_Witness ==
  \E p, q \in Threads :
    /\ pc[p] = "ret" /\ op[p].kind = "write" /\ res[p] = Err("commit")
    /\ txn[p] = NoTxn /\ lock = p
    /\ pc[q] = "lock"

\* The positions of key k in the slice items.
Occurs(items, k) == {i \in DOMAIN items : items[i][1] = k}

\* The value of the last pair of items whose key is k.
LastOf(items, k) == items[Latest(Occurs(items, k))][2]

\* C33: batch_write applies its pairs in sequence order.  After a
\* batch_write(items, T) that returned Ok, a read of a key of items that meets
\* no engine failure returns the value of the key's last pair in items, also
\* when the key occurs more than once; read_all(T) maps every key of items to
\* that value and holds the keys T had before and the distinct keys of items,
\* each once.
C33_BatchInOrder ==
  \A p \in Caller :
    /\ (Done(p, "read") /\ Occurs(log.items, op[p].key) # {}) =>
         res[p] = Ok(Some(LastOf(log.items, op[p].key)))
    /\ (Done(p, "read_all") /\ log.base # None) =>
         /\ res[p].ok
         /\ DOMAIN res[p].val = log.base.v \cup {log.items[i][1] : i \in DOMAIN log.items}
         /\ Cardinality(scan[p].seen) = Cardinality(DOMAIN res[p].val)
         /\ \A i \in DOMAIN log.items :
              res[p].val[log.items[i][1]] = LastOf(log.items, log.items[i][1])

\* A read_all has returned after a batch_write of two pairs with one key and
\* two values into a table that held the other key.
C33_Witness ==
  \E p \in Caller :
    /\ Done(p, "read_all") /\ res[p].ok
    /\ Len(log.items) = 2 /\ log.items[1][1] = log.items[2][1]
    /\ log.items[1][2] # log.items[2][2]
    /\ log.base # None /\ Cardinality(log.base.v) = 1
    /\ log.items[1][1] \notin log.base.v
    /\ Cardinality(DOMAIN res[p].val) = 2

\* The addresses table daopda holds.
PdaKeys == IF "daopda" \in DOMAIN env THEN DOMAIN env["daopda"] ELSE {}

\* Thread p serves a request of handler n.
Serves(p, n) == h[p] # NoReq /\ h[p].name = n

\* C34: save_pda is idempotent and get_all_pdas returns a set.  Table daopda
\* holds one entry for each address a save_pda has stored with Ok, its value
\* equal to its key, and nothing else; a save_pda of an address the table
\* holds already commits without changing any table; the read_all of a
\* get_all_pdas that meets no engine failure returns exactly those addresses,
\* and the handler answers OK with a list that names each of them once.
C34_SavePdaIdempotent ==
  /\ [](/\ PdaKeys = AckedKeys("daopda")
        /\ \A k \in PdaKeys : env["daopda"][k] = Text(k)
        /\ \A p \in Procs :
             (Serves(p, "get_all_pdas") /\ pc[p] = "ret" /\ ~fault[p]) =>
               res[p].ok /\ DOMAIN res[p].val = AckedKeys("daopda"))
  /\ [][\A p \in Procs :
          /\ ( /\ Serves(p, "save_pda") /\ pc[p] = "commit"
               /\ pc'[p] = "ret" /\ res'[p].ok
               /\ h[p].req.pda \in PdaKeys )
             => env' = env
          /\ ( /\ Serves(p, "get_all_pdas") /\ pc[p] = "back" /\ res[p].ok
               /\ pc'[p] = "resp" )
             => /\ h'[p].resp.status = "OK"
                /\ Len(h'[p].resp.pdas) = Cardinality(DOMAIN res[p].val)
                /\ {h'[p].resp.pdas[i] : i \in DOMAIN h'[p].resp.pdas}
                     = DOMAIN res[p].val]_vars

\* A save_pda of an address that was stored before has committed, and a
\* get_all_pdas has answered with the two addresses stored.
C34_Witness ==
  \E p, q \in Procs :
    /\ Serves(p, "save_pda") /\ pc[p] = "ret" /\ res[p].ok
    /\ "daopda" \in DOMAIN env0 /\ h[p].req.pda \in DOMAIN env0["daopda"]
    /\ Serves(q, "get_all_pdas") /\ pc[q] = "resp"
    /\ h[q].resp.status = "OK" /\ Len(h[q].resp.pdas) = 2
    /\ Cardinality(PdaKeys) = 2

====
